---- MODULE Spec2Model ----
(***************************************************************************)
(* Schema diff and schema migration of konstellio: getSchemaDiff compares  *)
(* the declared schemas with the live database, executeSchemaMigration     *)
(* turns the diff list into CreateCollection / AlterCollection queries.    *)
(*                                                                         *)
(* Handles are modelled as sequences of one-character strings so that the  *)
(* template strings (`${handle}__${code}`) and the regular expression of   *)
(* matchLocalizedHandle are computed, not assumed.                         *)
(***************************************************************************)
EXTENDS Integers, Sequences, FiniteSets, TLC

VARIABLES
    locales,     \* Object.keys(context.locales)
    schemas,     \* the declared schemas handed to getSchemaDiff
    database,    \* live collections: sequence of DescribeCollection results
    tty,         \* executeSchemaMigration was given stdin and stdout
    pc,          \* position of the getSchemaDiff / executeSchemaMigration run
    i,           \* loop index of the function that is running
    diffs,       \* getSchemaDiff: const diffs
    sorted,      \* executeSchemaMigration: diffs after diffs.sort(...)
    createCollections, \* executeSchemaMigration: const createCollections
    alterCollections,  \* executeSchemaMigration: Map<string, AlterCollectionQuery>, insertion order
    muteNewColumn,     \* executeSchemaMigration: const muteNewColumn
    prompts,     \* every promptSelection call made, in call order
    answers,     \* every promptSelection answer received, in order
    executed,    \* every query handed to database.execute, in call order
    results,     \* settlement of each dispatched migration query
    select,      \* db-sqlite: the Select query under execution
    calls,       \* db-sqlite: every driver.execute(select, variables) call, in call order
    statements,  \* db-sqlite: every statement that reached the backend, in order
    wire,        \* mq: per AMQPQueue, the frames its channel sent and the broker has not read
    ready,       \* mq: the tasks waiting in the broker's durable queue, oldest first
    registered,  \* mq: the consumer tags the broker delivers to
    unacked,     \* mq: the deliveries the broker holds until their ack
    consumers,   \* mq: every queue.consume(listener) call, indexed by consumer tag
    sent,        \* mq: every task handed to send / sendRPC, in call order
    invoked,     \* mq: every call of a consume listener, in call order
    replies,     \* mq: the messages waiting in the driver's exclusive reply queue
    rpcs,        \* mq: per task, the promise, timer and emitter listener of sendRPC
    chanWire,    \* mq: per AMQPChannel, the frames its channel sent and the broker has not read
    bound,       \* mq: the AMQPChannels whose exclusive queue the broker bound to the exchange
    inbox,       \* mq: per AMQPChannel, the messages routed to its queue and not consumed yet
    listeners,   \* mq: every channel.subscribe(listener) call, in call order
    published,   \* mq: every message handed to publish, in call order
    received,    \* mq: every call of a subscribe listener, in call order
    decorator,   \* fs: the class constructed over the file systems
    disks,       \* fs: per underlying file system, the kind of entry at every path
    pool,        \* fs: the file systems the Pool holds available
    fsCalls,     \* fs: every call made on the FileSystemPool or FileSystemMirror
    cache,       \* fs: FileSystemCache.cache, per hash the expiry and the Deferred
    now,         \* fs: Date.now()
    ttl,         \* fs: FileSystemCache.ttl
    defers,      \* fs: every Deferred created by cacheOrCompute, in creation order
    cacheCalls   \* fs: every call made on the FileSystemCache, in call order

vars == <<locales, schemas, database, tty, pc, i, diffs, sorted, createCollections,
          alterCollections, muteNewColumn, prompts, answers, executed, results,
          select, calls, statements,
          wire, ready, registered, unacked, consumers, sent, invoked, replies, rpcs,
          chanWire, bound, inbox, listeners, published, received,
          decorator, disks, pool, fsCalls, cache, now, ttl, defers, cacheCalls>>

\* the state of the other packages, which the migration never touches
sqlVars == <<select, calls, statements>>
mqVars == <<wire, ready, registered, unacked, consumers, sent, invoked, replies, rpcs>>
pubsubVars == <<chanWire, bound, inbox, listeners, published, received>>
fsVars == <<decorator, disks, pool, fsCalls, cache, now, ttl, defers, cacheCalls>>
otherVars == <<sqlVars, mqVars, pubsubVars, fsVars>>

\* no query was handed to the SQLite driver
SqlIdle ==
    /\ select = <<>>
    /\ calls = <<>>
    /\ statements = <<>>

\* no queue was created on the AMQP driver
MqIdle ==
    /\ wire = <<>>
    /\ ready = <<>>
    /\ registered = {}
    /\ unacked = {}
    /\ consumers = <<>>
    /\ sent = <<>>
    /\ invoked = <<>>
    /\ replies = <<>>
    /\ rpcs = <<>>

\* no channel was created on the AMQP driver
PubSubIdle ==
    /\ chanWire = <<>>
    /\ bound = {}
    /\ inbox = <<>>
    /\ listeners = <<>>
    /\ published = <<>>
    /\ received = <<>>

\* no file system decorator was constructed
FsIdle ==
    /\ decorator = ""
    /\ disks = <<>>
    /\ pool = {}
    /\ fsCalls = <<>>
    /\ cache = <<>>
    /\ now = 0
    /\ ttl = 0
    /\ defers = <<>>
    /\ cacheCalls = <<>>

(***************************************************************************)
(* Characters and strings                                                  *)
(***************************************************************************)
Lower == {"a","b","c","d","e","f","g","h","i","j","k","l","m",
          "n","o","p","q","r","s","t","u","v","w","x","y","z"}
Upper == {"A","B","C","D","E","F","G","H","I","J","K","L","M",
          "N","O","P","Q","R","S","T","U","V","W","X","Y","Z"}
Digit == {"0","1","2","3","4","5","6","7","8","9"}

\* [a-z] under the /i flag
IsLetter(c) == c \in Lower \cup Upper
\* [a-zA-Z0-9_-]
IsHandleChar(c) == c \in Lower \cup Upper \cup Digit \cup {"_", "-"}

SubStr(s, from, to) == [k \in 1..(to - from + 1) |-> s[from + k - 1]]

NoMatch == [matched |-> FALSE, base |-> <<>>, locale |-> <<>>]

\* handle.match(/^([a-zA-Z0-9_-]+)__([a-z]{2}(-[a-zA-Z]{2})?)$/i); base is
\* match[1], locale is match[2].
matchLocalizedHandle(handle) ==
    LET n == Len(handle)
        short == /\ n >= 5
                 /\ handle[n - 3] = "_" /\ handle[n - 2] = "_"
                 /\ IsLetter(handle[n - 1]) /\ IsLetter(handle[n])
                 /\ \A k \in 1..(n - 4) : IsHandleChar(handle[k])
        long  == /\ n >= 8
                 /\ handle[n - 6] = "_" /\ handle[n - 5] = "_"
                 /\ IsLetter(handle[n - 4]) /\ IsLetter(handle[n - 3])
                 /\ handle[n - 2] = "-"
                 /\ IsLetter(handle[n - 1]) /\ IsLetter(handle[n])
                 /\ \A k \in 1..(n - 7) : IsHandleChar(handle[k])
    IN  IF short
        THEN [matched |-> TRUE, base |-> SubStr(handle, 1, n - 4), locale |-> SubStr(handle, n - 1, n)]
        ELSE IF long
        THEN [matched |-> TRUE, base |-> SubStr(handle, 1, n - 7), locale |-> SubStr(handle, n - 4, n)]
        ELSE NoMatch

\* `${handle}__${code}`
Localize(handle, code) == handle \o <<"_", "_">> \o code

(***************************************************************************)
(* Column and index types                                                  *)
(***************************************************************************)
ColumnType == {"Boolean", "Bit", "UInt8", "UInt16", "UInt32", "UInt64",
               "Int8", "Int16", "Int32", "Int64", "Float32", "Float64",
               "Text", "Blob", "Date", "DateTime"}

\* the value a throwing mapping function yields instead of a result
Thrown == "<thrown>"

mapStringToColumnType(type) ==
    CASE type = "int" -> "Int64"
      [] type = "float" -> "Float64"
      [] type \in {"text", "password", "slug", "html"} -> "Text"
      [] type = "date" -> "DateTime"
      [] type = "datetime" -> "DateTime"
      [] OTHER -> Thrown

mapStringToIndexType(type) ==
    CASE type = "primary" -> "primary"
      [] type = "unique" -> "unique"
      [] type = "index" -> "index"
      [] OTHER -> Thrown

mapColumnTypeToFieldType(type) ==
    CASE type \in {"Int8", "Int16", "Int32", "Int64"} -> "int"
      [] type \in {"Float32", "Float64"} -> "float"
      [] type = "Text" -> "text"
      [] type = "Date" -> "date"
      [] type = "DateTime" -> "datetime"
      [] type = "Blob" -> "blob"
      [] OTHER -> Thrown

Numeric == {"Bit", "UInt8", "UInt16", "UInt32", "UInt64",
            "Int8", "Int16", "Int32", "Int64", "Float32", "Float64"}
Temporal == {"Date", "DateTime"}

\* database.compareTypes(a, b): the flag set relating type b (stored) to
\* type a (wanted).
compareTypes(a, b) ==
    IF a = b THEN {"Equal", "Castable", "Comparable"}
    ELSE IF a \in Numeric /\ b \in Numeric THEN {"Castable", "Comparable"}
    ELSE IF a \in Temporal /\ b \in Temporal THEN {"Castable", "Comparable"}
    ELSE {}

(***************************************************************************)
(* Schema descriptions                                                     *)
(*   Schema            [handle, fields, indexes]                           *)
(*   Field             [handle, type, localized]                           *)
(*   SchemaIndex       [handle, type, fields]     fields: <<[name, direction]>> *)
(*   SchemaDescription [handle, columns, indexes]                          *)
(*   DescribeCollectionQueryResult [collection, columns, indexes]          *)
(* An object used as a map ({ [handle]: 'asc' | 'desc' }) is a sequence of *)
(* [name, direction] entries in key insertion order.                       *)
(***************************************************************************)

\* Array.prototype.find / indexOf: position of the first element with that handle, 0 if none
RECURSIVE FindHandle(_, _, _)
FindHandle(list, handle, k) ==
    IF k > Len(list) THEN 0
    ELSE IF list[k].handle = handle THEN k
    ELSE FindHandle(list, handle, k + 1)

RECURSIVE FindName(_, _, _)
FindName(list, name, k) ==
    IF k > Len(list) THEN 0
    ELSE IF list[k].name = name THEN k
    ELSE FindName(list, name, k + 1)

\* obj[name] = direction
ObjectSet(obj, name, direction) ==
    LET at == FindName(obj, name, 1)
    IN  IF at = 0
        THEN Append(obj, [name |-> name, direction |-> direction])
        ELSE [obj EXCEPT ![at] = [name |-> name, direction |-> direction]]

\* field !== undefined && field.localized === true, for the field an index refers to
IsLocalizedField(schema, name) ==
    LET at == FindHandle(schema.fields, name, 1)
    IN  at # 0 /\ schema.fields[at].localized

\* the relation test is lost: a relation field gets a column like any other field
RECURSIVE FieldColumns_relation(_, _, _)
FieldColumns_relation(locs, fields, k) ==
    IF k > Len(fields) THEN <<>>
    ELSE LET field == fields[k]
             own == IF field.localized
                    THEN [c \in 1..Len(locs) |->
                            [handle |-> Localize(field.handle, locs[c]), type |-> field.type]]
                    ELSE <<[handle |-> field.handle, type |-> field.type]>>
         IN  own \o FieldColumns_relation(locs, fields, k + 1)

RECURSIVE FieldColumns(_, _, _)
FieldColumns(locs, fields, k) ==
    IF k > Len(fields) THEN <<>>
    ELSE LET field == fields[k]
             own == IF field.type = "relation" THEN <<>>
                    ELSE IF field.localized
                    THEN [c \in 1..Len(locs) |->
                            [handle |-> Localize(field.handle, locs[c]), type |-> field.type]]
                    ELSE <<[handle |-> field.handle, type |-> field.type]>>
         IN  own \o FieldColumns(locs, fields, k + 1)

RECURSIVE LocalizedIndexColumns(_, _, _, _, _)
LocalizedIndexColumns(schema, index, code, k, acc) ==
    IF k > Len(index.fields) THEN acc
    ELSE LET entry == index.fields[k]
             name == IF IsLocalizedField(schema, entry.name)
                     THEN Localize(entry.name, code) ELSE entry.name
         IN  LocalizedIndexColumns(schema, index, code, k + 1,
                                   ObjectSet(acc, name, entry.direction))

\* the inner reduce qualifies with the first locale instead of the one of the copy
RECURSIVE SchemaIndexes_firstLocale(_, _, _)
SchemaIndexes_firstLocale(locs, schema, k) ==
    IF k > Len(schema.indexes) THEN <<>>
    ELSE LET index == schema.indexes[k]
             localized == \E f \in 1..Len(index.fields) :
                              IsLocalizedField(schema, index.fields[f].name)
             own == IF localized
                    THEN [c \in 1..Len(locs) |->
                            [handle |-> Localize(index.handle, locs[c]),
                             type |-> index.type,
                             columns |-> LocalizedIndexColumns(schema, index, locs[1], 1, <<>>)]]
                    ELSE <<[handle |-> index.handle, type |-> index.type,
                            columns |-> index.fields]>>
         IN  own \o SchemaIndexes_firstLocale(locs, schema, k + 1)

RECURSIVE SchemaIndexes(_, _, _)
SchemaIndexes(locs, schema, k) ==
    IF k > Len(schema.indexes) THEN <<>>
    ELSE LET index == schema.indexes[k]
             localized == \E f \in 1..Len(index.fields) :
                              IsLocalizedField(schema, index.fields[f].name)
             own == IF localized
                    THEN [c \in 1..Len(locs) |->
                            [handle |-> Localize(index.handle, locs[c]),
                             type |-> index.type,
                             columns |-> LocalizedIndexColumns(schema, index, locs[c], 1, <<>>)]]
                    ELSE <<[handle |-> index.handle, type |-> index.type,
                            columns |-> index.fields]>>
         IN  own \o SchemaIndexes(locs, schema, k + 1)

schemaToSchemaDescription(locs, schema) ==
    [handle |-> schema.handle,
     columns |-> FieldColumns(locs, schema.fields, 1),
     indexes |-> SchemaIndexes(locs, schema, 1)]

RECURSIVE CollapsedIndexColumns(_, _, _, _)
CollapsedIndexColumns(columns, localized, k, acc) ==
    IF k > Len(columns) THEN acc
    ELSE LET field == columns[k]
             match == matchLocalizedHandle(field.name)
             direction == IF field.direction = "undefined" THEN "asc" ELSE field.direction
             name == IF localized /\ match.matched THEN match.base ELSE field.name
         IN  CollapsedIndexColumns(columns, localized, k + 1, ObjectSet(acc, name, direction))

\* mapColumnTypeToFieldType throws for one of the columns
databaseDescriptionThrows(description) ==
    \E c \in 1..Len(description.columns) :
        mapColumnTypeToFieldType(description.columns[c].type) = Thrown

\* the columns reduce collapses a locale-suffixed column name to its base handle
databaseDescriptionToSchemaDescription_collapsing(description) ==
    [handle |-> description.collection,
     columns |-> [c \in 1..Len(description.columns) |->
                    LET match == matchLocalizedHandle(description.columns[c].name)
                    IN  [handle |-> IF match.matched THEN match.base
                                    ELSE description.columns[c].name,
                         type |-> mapColumnTypeToFieldType(description.columns[c].type)]],
     indexes |-> [x \in 1..Len(description.indexes) |->
                    LET index == description.indexes[x]
                        localized == \E f \in 1..Len(index.columns) :
                                         matchLocalizedHandle(index.columns[f].name).matched
                    IN  [handle |-> index.name,
                         type |-> index.type,
                         columns |-> CollapsedIndexColumns(index.columns, localized, 1, <<>>)]]]

databaseDescriptionToSchemaDescription(description) ==
    [handle |-> description.collection,
     columns |-> [c \in 1..Len(description.columns) |->
                    [handle |-> description.columns[c].name,
                     type |-> mapColumnTypeToFieldType(description.columns[c].type)]],
     indexes |-> [x \in 1..Len(description.indexes) |->
                    LET index == description.indexes[x]
                        localized == \E f \in 1..Len(index.columns) :
                                         matchLocalizedHandle(index.columns[f].name).matched
                    IN  [handle |-> index.name,
                         type |-> index.type,
                         columns |-> CollapsedIndexColumns(index.columns, localized, 1, <<>>)]]]

(***************************************************************************)
(* getSchemaDiff: the diffs of one existing collection                     *)
(***************************************************************************)
Handles(list) == [k \in 1..Len(list) |-> list[k].handle]

SelectSeqBase(handles, base) ==
    SelectSeq(handles, LAMBDA handle :
        LET m2 == matchLocalizedHandle(handle) IN m2.matched /\ m2.base = base)

\* the forEach with the drop_column branch lost: an absent column is skipped
RECURSIVE DbColumnDiffs_noDrop(_, _, _, _)
DbColumnDiffs_noDrop(schemaDesc, dbSchemaDesc, k, acc) ==
    IF k > Len(dbSchemaDesc.columns) \/ acc.thrown THEN acc
    ELSE LET dbColumn == dbSchemaDesc.columns[k]
             at == FindHandle(schemaDesc.columns, dbColumn.handle, 1)
             column == schemaDesc.columns[at]
             next ==
                IF at = 0 THEN acc
                ELSE IF mapStringToColumnType(column.type) = Thrown
                        \/ mapStringToColumnType(dbColumn.type) = Thrown
                THEN [acc EXCEPT !.thrown = TRUE]
                ELSE IF "Castable" \notin compareTypes(mapStringToColumnType(column.type),
                                                       mapStringToColumnType(dbColumn.type))
                THEN [acc EXCEPT !.mutedFields = Append(@, column.handle),
                                 !.diffs = Append(@, [action |-> "alter_column",
                                                      collection |-> schemaDesc,
                                                      column |-> dbColumn,
                                                      type |-> column.type])]
                ELSE [acc EXCEPT !.mutedFields = Append(@, column.handle)]
         IN  DbColumnDiffs_noDrop(schemaDesc, dbSchemaDesc, k + 1, next)

\* the forEach with the Castable test inverted
RECURSIVE DbColumnDiffs_inverted(_, _, _, _)
DbColumnDiffs_inverted(schemaDesc, dbSchemaDesc, k, acc) ==
    IF k > Len(dbSchemaDesc.columns) \/ acc.thrown THEN acc
    ELSE LET dbColumn == dbSchemaDesc.columns[k]
             at == FindHandle(schemaDesc.columns, dbColumn.handle, 1)
             column == schemaDesc.columns[at]
             next ==
                IF at = 0
                THEN [acc EXCEPT !.diffs = Append(@, [action |-> "drop_column",
                                                       collection |-> schemaDesc,
                                                       column |-> dbColumn])]
                ELSE IF mapStringToColumnType(column.type) = Thrown
                        \/ mapStringToColumnType(dbColumn.type) = Thrown
                THEN [acc EXCEPT !.thrown = TRUE]
                ELSE IF "Castable" \in compareTypes(mapStringToColumnType(column.type),
                                                    mapStringToColumnType(dbColumn.type))
                THEN [acc EXCEPT !.mutedFields = Append(@, column.handle),
                                 !.diffs = Append(@, [action |-> "alter_column",
                                                      collection |-> schemaDesc,
                                                      column |-> dbColumn,
                                                      type |-> column.type])]
                ELSE [acc EXCEPT !.mutedFields = Append(@, column.handle)]
         IN  DbColumnDiffs_inverted(schemaDesc, dbSchemaDesc, k + 1, next)

\* dbSchemaDesc.columns.forEach(...): acc is [thrown, diffs, mutedFields]
RECURSIVE DbColumnDiffs(_, _, _, _)
DbColumnDiffs(schemaDesc, dbSchemaDesc, k, acc) ==
    IF k > Len(dbSchemaDesc.columns) \/ acc.thrown THEN acc
    ELSE LET dbColumn == dbSchemaDesc.columns[k]
             at == FindHandle(schemaDesc.columns, dbColumn.handle, 1)
             column == schemaDesc.columns[at]
             next ==
                IF at = 0
                THEN [acc EXCEPT !.diffs = Append(@, [action |-> "drop_column",
                                                       collection |-> schemaDesc,
                                                       column |-> dbColumn])]
                ELSE IF mapStringToColumnType(column.type) = Thrown
                        \/ mapStringToColumnType(dbColumn.type) = Thrown
                THEN [acc EXCEPT !.thrown = TRUE]
                ELSE IF "Castable" \notin compareTypes(mapStringToColumnType(column.type),
                                                       mapStringToColumnType(dbColumn.type))
                THEN [acc EXCEPT !.mutedFields = Append(@, column.handle),
                                 !.diffs = Append(@, [action |-> "alter_column",
                                                      collection |-> schemaDesc,
                                                      column |-> dbColumn,
                                                      type |-> column.type])]
                ELSE [acc EXCEPT !.mutedFields = Append(@, column.handle)]
         IN  DbColumnDiffs(schemaDesc, dbSchemaDesc, k + 1, next)

\* the copyColumn list of an add_column diff
copyColumn(column, dbSchemaDesc) ==
    LET match == matchLocalizedHandle(column.handle)
    IN  IF match.matched
        THEN SelectSeqBase(Handles(dbSchemaDesc.columns), match.base)
        ELSE Handles(dbSchemaDesc.columns)

\* the forEach without the mutedFields test: every declared column is added
RECURSIVE NewColumnDiffs_unmuted(_, _, _, _)
NewColumnDiffs_unmuted(schemaDesc, dbSchemaDesc, mutedFields, k) ==
    IF k > Len(schemaDesc.columns) THEN <<>>
    ELSE LET column == schemaDesc.columns[k]
         IN  <<[action |-> "add_column",
                collection |-> schemaDesc,
                column |-> column,
                copyColumn |-> copyColumn(column, dbSchemaDesc)]>>
             \o NewColumnDiffs_unmuted(schemaDesc, dbSchemaDesc, mutedFields, k + 1)

\* schemaDesc.columns.forEach(...)
RECURSIVE NewColumnDiffs(_, _, _, _)
NewColumnDiffs(schemaDesc, dbSchemaDesc, mutedFields, k) ==
    IF k > Len(schemaDesc.columns) THEN <<>>
    ELSE LET column == schemaDesc.columns[k]
             own == IF \A m \in 1..Len(mutedFields) : mutedFields[m] # column.handle
                    THEN <<[action |-> "add_column",
                            collection |-> schemaDesc,
                            column |-> column,
                            copyColumn |-> copyColumn(column, dbSchemaDesc)]>>
                    ELSE <<>>
         IN  own \o NewColumnDiffs(schemaDesc, dbSchemaDesc, mutedFields, k + 1)

\* the forEach comparing whole indexes instead of handles
RECURSIVE DbIndexDiffs_whole(_, _, _)
DbIndexDiffs_whole(schemaDesc, dbSchemaDesc, k) ==
    IF k > Len(dbSchemaDesc.indexes) THEN <<>>
    ELSE LET dbIndex == dbSchemaDesc.indexes[k]
             own == IF \A x \in 1..Len(schemaDesc.indexes) : schemaDesc.indexes[x] # dbIndex
                    THEN <<[action |-> "drop_index",
                            collection |-> schemaDesc,
                            index |-> dbIndex]>>
                    ELSE <<>>
         IN  own \o DbIndexDiffs_whole(schemaDesc, dbSchemaDesc, k + 1)

\* dbSchemaDesc.indexes.forEach(...): every live index is muted, the absent ones are dropped
RECURSIVE DbIndexDiffs(_, _, _)
DbIndexDiffs(schemaDesc, dbSchemaDesc, k) ==
    IF k > Len(dbSchemaDesc.indexes) THEN <<>>
    ELSE LET dbIndex == dbSchemaDesc.indexes[k]
             own == IF FindHandle(schemaDesc.indexes, dbIndex.handle, 1) = 0
                    THEN <<[action |-> "drop_index",
                            collection |-> schemaDesc,
                            index |-> dbIndex]>>
                    ELSE <<>>
         IN  own \o DbIndexDiffs(schemaDesc, dbSchemaDesc, k + 1)

\* schemaDesc.indexes.forEach(...)
\* the mutedIndexes test is lost: every declared index is added
RECURSIVE NewIndexDiffs_all(_, _, _)
NewIndexDiffs_all(schemaDesc, dbSchemaDesc, k) ==
    IF k > Len(schemaDesc.indexes) THEN <<>>
    ELSE <<[action |-> "add_index",
            collection |-> schemaDesc,
            index |-> schemaDesc.indexes[k]]>>
         \o NewIndexDiffs_all(schemaDesc, dbSchemaDesc, k + 1)

RECURSIVE NewIndexDiffs(_, _, _)
NewIndexDiffs(schemaDesc, dbSchemaDesc, k) ==
    IF k > Len(schemaDesc.indexes) THEN <<>>
    ELSE LET index == schemaDesc.indexes[k]
             mutedIndexes == Handles(dbSchemaDesc.indexes)
             own == IF \A m \in 1..Len(mutedIndexes) : mutedIndexes[m] # index.handle
                    THEN <<[action |-> "add_index",
                            collection |-> schemaDesc,
                            index |-> index]>>
                    ELSE <<>>
         IN  own \o NewIndexDiffs(schemaDesc, dbSchemaDesc, k + 1)

\* the else branch with the two column loops in the other order
CollectionDiffs_addsFirst(schemaDesc, description) ==
    IF databaseDescriptionThrows(description) THEN [thrown |-> TRUE, diffs |-> <<>>]
    ELSE LET dbSchemaDesc == databaseDescriptionToSchemaDescription(description)
             cols == DbColumnDiffs(schemaDesc, dbSchemaDesc, 1,
                                   [thrown |-> FALSE, diffs |-> <<>>, mutedFields |-> <<>>])
         IN  IF cols.thrown THEN [thrown |-> TRUE, diffs |-> <<>>]
             ELSE [thrown |-> FALSE,
                   diffs |-> NewColumnDiffs(schemaDesc, dbSchemaDesc, cols.mutedFields, 1)
                             \o cols.diffs
                             \o DbIndexDiffs(schemaDesc, dbSchemaDesc, 1)
                             \o NewIndexDiffs(schemaDesc, dbSchemaDesc, 1)]

\* the else branch of getSchemaDiff for one schema: [thrown, diffs]
CollectionDiffs(schemaDesc, description) ==
    IF databaseDescriptionThrows(description) THEN [thrown |-> TRUE, diffs |-> <<>>]
    ELSE LET dbSchemaDesc == databaseDescriptionToSchemaDescription(description)
             cols == DbColumnDiffs(schemaDesc, dbSchemaDesc, 1,
                                   [thrown |-> FALSE, diffs |-> <<>>, mutedFields |-> <<>>])
         IN  IF cols.thrown THEN [thrown |-> TRUE, diffs |-> <<>>]
             ELSE [thrown |-> FALSE,
                   diffs |-> cols.diffs
                             \o NewColumnDiffs(schemaDesc, dbSchemaDesc, cols.mutedFields, 1)
                             \o DbIndexDiffs(schemaDesc, dbSchemaDesc, 1)
                             \o NewIndexDiffs(schemaDesc, dbSchemaDesc, 1)]

(***************************************************************************)
(* Inputs: declared schemas, locales and live database                     *)
(***************************************************************************)
MaxFields == 2
MaxIndexes == 1

Post == <<"P","o","s","t">>
User == <<"U","s","e","r">>
id == <<"i","d">>
title == <<"t","i","t","l","e">>
author == <<"a","u","t","h","o","r">>
ref__id == <<"r","e","f","_","_","i","d">>
en == <<"e","n">>
fr == <<"f","r">>
pk == <<"p","k">>
by_title == <<"b","y","_","t","i","t","l","e">>

LocaleLists == {<<en>>, <<en, fr>>}

FieldUniverse ==
    << [handle |-> id, type |-> "int", localized |-> FALSE],
       [handle |-> title, type |-> "text", localized |-> TRUE],
       [handle |-> ref__id, type |-> "int", localized |-> FALSE] >>

IndexUniverse ==
    << [handle |-> pk, type |-> "primary",
        fields |-> <<[name |-> id, direction |-> "asc"]>>],
       [handle |-> by_title, type |-> "unique",
        fields |-> <<[name |-> title, direction |-> "asc"]>>] >>

LiveColumnUniverse ==
    << [name |-> id, type |-> "Int32"],
       [name |-> id, type |-> "Text"],
       [name |-> id, type |-> "Boolean"],
       [name |-> Localize(title, en), type |-> "Text"],
       [name |-> Localize(title, en), type |-> "Blob"] >>

LiveIndexUniverse ==
    << [name |-> pk, type |-> "index",
        columns |-> <<[name |-> id, direction |-> "undefined"]>>],
       [name |-> Localize(by_title, en), type |-> "unique",
        columns |-> <<[name |-> Localize(title, en), direction |-> "desc"]>>] >>

Min(S) == CHOOSE x \in S : \A y \in S : x <= y

\* the elements of universe at the positions S, in universe order
RECURSIVE Pick(_, _)
Pick(universe, S) ==
    IF S = {} THEN <<>>
    ELSE <<universe[Min(S)]>> \o Pick(universe, S \ {Min(S)})

SubSeqs(universe, max) ==
    {Pick(universe, S) : S \in {T \in SUBSET (1..Len(universe)) : Cardinality(T) <= max}}
AllSubSeqs(universe) == SubSeqs(universe, Len(universe))

DistinctNames(list) ==
    \A a, b \in 1..Len(list) : list[a].name = list[b].name => a = b

PostSchemas ==
    {[handle |-> Post, fields |-> fs, indexes |-> xs] :
        fs \in SubSeqs(FieldUniverse, MaxFields), xs \in SubSeqs(IndexUniverse, MaxIndexes)}

UserSchema ==
    [handle |-> User,
     fields |-> <<FieldUniverse[1],
                  [handle |-> author, type |-> "relation", localized |-> FALSE]>>,
     indexes |-> <<IndexUniverse[1]>>]

SchemaLists == {<<s>> : s \in PostSchemas} \cup {<<s, UserSchema>> : s \in PostSchemas}

NoDescription(handle) == [collection |-> handle, columns |-> <<>>, indexes |-> <<>>]
Missing(handle) == [exists |-> FALSE, description |-> NoDescription(handle)]

PostLive ==
    {Missing(Post)} \cup
    {[exists |-> TRUE,
      description |-> [collection |-> Post, columns |-> cs, indexes |-> xs]] :
        cs \in {l \in AllSubSeqs(LiveColumnUniverse) : DistinctNames(l)},
        xs \in AllSubSeqs(LiveIndexUniverse)}

UserLive ==
    [exists |-> TRUE,
     description |-> [collection |-> User,
                      columns |-> <<LiveColumnUniverse[2], LiveColumnUniverse[4]>>,
                      indexes |-> <<>>]]

\* the live state of the collection with that handle
Live(handle) ==
    LET at == CHOOSE k \in 1..Len(database) : database[k].description.collection = handle
    IN  database[at]

(***************************************************************************)
(* Queries (the q.* builders)                                              *)
(***************************************************************************)
collectionExists(handle) == [kind |-> "collectionExists", collection |-> handle]
describeCollection(handle) == [kind |-> "describeCollection", collection |-> handle]

(***************************************************************************)
(* getSchemaDiff                                                           *)
(***************************************************************************)
Init ==
    /\ locales \in LocaleLists
    /\ schemas \in SchemaLists
    /\ \E p \in PostLive :
          database = IF Len(schemas) = 1 THEN <<p>> ELSE <<p, UserLive>>
    /\ tty = FALSE
    /\ pc = "diff_loop"
    /\ i = 1
    /\ diffs = <<>>
    /\ sorted = <<>>
    /\ createCollections = <<>>
    /\ alterCollections = <<>>
    /\ muteNewColumn = <<>>
    /\ prompts = <<>>
    /\ answers = <<>>
    /\ executed = <<>>
    /\ results = <<>>
    /\ SqlIdle
    /\ MqIdle
    /\ PubSubIdle
    /\ FsIdle

migrationVars == <<tty, sorted, createCollections, alterCollections, muteNewColumn,
                   prompts, answers, results>>
inputVars == <<locales, schemas, database>>

\* the existence of the collection is not asked before going on
DiffLoop_noExists ==
    /\ pc = "diff_loop"
    /\ pc' = IF i > Len(schemas) THEN "diff_returned" ELSE "diff_exists"
    /\ UNCHANGED <<executed, i, diffs, inputVars, otherVars, migrationVars>>

\* for (...; i < l; ...) { ... await database.execute(q.collectionExists(schema.handle))
DiffLoop ==
    /\ pc = "diff_loop"
    /\ IF i > Len(schemas)
       THEN /\ pc' = "diff_returned"
            /\ UNCHANGED executed
       ELSE /\ pc' = "diff_exists"
            /\ executed' = Append(executed, collectionExists(schemas[i].handle))
    /\ UNCHANGED <<i, diffs, inputVars, otherVars, migrationVars>>

\* the else is lost: a missing collection is added and described all the same
DiffExists_noElse ==
    /\ pc = "diff_exists"
    /\ LET schema == schemas[i]
           schemaDesc == schemaToSchemaDescription(locales, schema)
       IN  /\ diffs' = IF Live(schema.handle).exists = FALSE
                       THEN Append(diffs, [action |-> "add_collection", collection |-> schemaDesc])
                       ELSE diffs
           /\ executed' = Append(executed, describeCollection(schema.handle))
           /\ pc' = "diff_describe"
           /\ UNCHANGED i
    /\ UNCHANGED <<inputVars, otherVars, migrationVars>>

\* if (exists.exists === false) { diffs.push(add_collection) } else { await describeCollection
DiffExists ==
    /\ pc = "diff_exists"
    /\ LET schema == schemas[i]
           schemaDesc == schemaToSchemaDescription(locales, schema)
       IN  IF Live(schema.handle).exists = FALSE
           THEN /\ diffs' = Append(diffs, [action |-> "add_collection",
                                           collection |-> schemaDesc])
                /\ i' = i + 1
                /\ pc' = "diff_loop"
                /\ UNCHANGED executed
           ELSE /\ executed' = Append(executed, describeCollection(schema.handle))
                /\ pc' = "diff_describe"
                /\ UNCHANGED <<i, diffs>>
    /\ UNCHANGED <<inputVars, otherVars, migrationVars>>

\* the rest of the else branch, once the description has arrived
DiffDescribe ==
    /\ pc = "diff_describe"
    /\ LET schema == schemas[i]
           schemaDesc == schemaToSchemaDescription(locales, schema)
           r == CollectionDiffs(schemaDesc, Live(schema.handle).description)
       IN  IF r.thrown
           THEN /\ pc' = "diff_thrown"
                /\ UNCHANGED <<i, diffs>>
           ELSE /\ diffs' = diffs \o r.diffs
                /\ i' = i + 1
                /\ pc' = "diff_loop"
    /\ UNCHANGED <<executed, inputVars, otherVars, migrationVars>>

(***************************************************************************)
(* executeSchemaMigration                                                  *)
(***************************************************************************)
empty == <<"e","m","p","t","y">>
abort == <<"a","b","o","r","t">>
drop == <<"d","r","o","p">>
\* the undefined copy source of addColumn
Undefined == <<>>

\* the comparator handed to diffs.sort: (a, b) => { return 0; }
compareDiffs(a, b) == 0

\* insertion of element into the sorted prefix: it moves left past every
\* entry the comparator orders after it
RECURSIVE InsertSorted(_, _, _)
InsertSorted(prefix, element, j) ==
    IF j >= 1 /\ compareDiffs(prefix[j], element) > 0
    THEN InsertSorted(prefix, element, j - 1)
    ELSE SubSeq(prefix, 1, j) \o <<element>> \o SubSeq(prefix, j + 1, Len(prefix))

\* diffs.sort(...), a stable sort
RECURSIVE sort(_, _, _)
sort(list, k, acc) ==
    IF k > Len(list) THEN acc
    ELSE sort(list, k + 1, InsertSorted(acc, list[k], Len(acc)))

column(name, type) == [name |-> name, type |-> type]
index(name, type, columns) == [name |-> name, type |-> type, columns |-> columns]
createCollection(handle, columns, indexes) ==
    [kind |-> "createCollection", collection |-> handle,
     columns |-> columns, indexes |-> indexes]
alterCollection(handle) ==
    [kind |-> "alterCollection", collection |-> handle, changes |-> <<>>]
addColumn(alter, col, copy) ==
    [alter EXCEPT !.changes = Append(@, [op |-> "addColumn", column |-> col, copyColumn |-> copy])]
alterColumn(alter, name, col) ==
    [alter EXCEPT !.changes = Append(@, [op |-> "alterColumn", name |-> name, column |-> col])]
dropColumn(alter, name) ==
    [alter EXCEPT !.changes = Append(@, [op |-> "dropColumn", name |-> name])]
addIndex(alter, idx) ==
    [alter EXCEPT !.changes = Append(@, [op |-> "addIndex", index |-> idx])]
dropIndex(alter, name) ==
    [alter EXCEPT !.changes = Append(@, [op |-> "dropIndex", name |-> name])]

\* Map<string, AlterCollectionQuery>: has, get, set
RECURSIVE MapFind(_, _, _)
MapFind(map, handle, k) ==
    IF k > Len(map) THEN 0
    ELSE IF map[k].collection = handle THEN k
    ELSE MapFind(map, handle, k + 1)
MapHas(map, handle) == MapFind(map, handle, 1) # 0
MapGet(map, handle) == map[MapFind(map, handle, 1)]
MapSet(map, handle, alter) ==
    IF MapHas(map, handle)
    THEN [map EXCEPT ![MapFind(map, handle, 1)] = alter]
    ELSE Append(map, alter)

\* the has() test is dropped: the batched query of the collection is replaced
Ensure_always(map, handle) == MapSet(map, handle, alterCollection(handle))

\* if (alterCollections.has(collectionHandle) === false) { alterCollections.set(..., q.alterCollection(...)) }
Ensure(map, handle) ==
    IF MapHas(map, handle) THEN map ELSE MapSet(map, handle, alterCollection(handle))

\* `${collectionHandle}.${diff.column.handle}`
columnName(diff) == diff.collection.handle \o <<".">> \o diff.column.handle

\* the keys of new Map(choices) offered for an add_column diff
addColumnChoices(diff) ==
    {empty} \cup {diff.copyColumn[k] : k \in 1..Len(diff.copyColumn)} \cup {abort}
dropColumnChoices(diff) == {drop, abort}

CreateThrows(diff) ==
    \/ \E c \in 1..Len(diff.collection.columns) :
          mapStringToColumnType(diff.collection.columns[c].type) = Thrown
    \/ \E x \in 1..Len(diff.collection.indexes) :
          mapStringToIndexType(diff.collection.indexes[x].type) = Thrown

\* the createCollection query of an add_collection diff
CreateOf(diff) ==
    createCollection(diff.collection.handle,
        [c \in 1..Len(diff.collection.columns) |->
            column(diff.collection.columns[c].handle,
                   mapStringToColumnType(diff.collection.columns[c].type))],
        [x \in 1..Len(diff.collection.indexes) |->
            index(diff.collection.indexes[x].handle,
                  mapStringToIndexType(diff.collection.indexes[x].type),
                  diff.collection.indexes[x].columns)])

\* the abort key is never recognised
IsAbort_never(choice) == FALSE

\* if (choice === 'abort') { throw new Error(`User aborted migration.`) }
IsAbort(choice) == choice = abort

\* the loop stops one diff early
LoopDone_early(k, list) == k >= Len(list)

\* the for loop has run through: i < l fails
LoopDone(k, list) == k > Len(list)

\* executeSchemaMigration is called with the list getSchemaDiff returned
MigrateStart ==
    /\ pc = "diff_returned"
    /\ tty' \in BOOLEAN
    /\ sorted' = sort(diffs, 1, <<>>)
    /\ createCollections' = <<>>
    /\ alterCollections' = <<>>
    /\ muteNewColumn' = <<>>
    /\ i' = 1
    /\ pc' = "mig_loop"
    /\ UNCHANGED <<diffs, prompts, answers, executed, results, inputVars, otherVars>>

\* one iteration of the for loop, up to its end or to its await promptSelection
MigrateDiff ==
    /\ pc = "mig_loop"
    /\ ~LoopDone(i, sorted)
    /\ LET diff == sorted[i]
           collectionHandle == diff.collection.handle
           ensured == Ensure(alterCollections, collectionHandle)
           continue == /\ i' = i + 1
                       /\ pc' = "mig_loop"
                       /\ UNCHANGED prompts
           throw(kind) == /\ pc' = kind
                          /\ UNCHANGED <<i, prompts>>
       IN  CASE diff.action = "add_collection" ->
                  IF CreateThrows(diff)
                  THEN throw("mig_thrown") /\ UNCHANGED <<createCollections, alterCollections>>
                  ELSE /\ createCollections' = Append(createCollections, CreateOf(diff))
                       /\ continue
                       /\ UNCHANGED alterCollections
             [] diff.action = "add_column" ->
                  /\ UNCHANGED createCollections
                  /\ IF \E m \in 1..Len(muteNewColumn) : muteNewColumn[m] = columnName(diff)
                     THEN continue /\ UNCHANGED alterCollections
                     ELSE IF Len(diff.copyColumn) > 0
                     THEN IF tty
                          THEN /\ alterCollections' = ensured
                               /\ prompts' = Append(prompts, [diff |-> i, choices |-> addColumnChoices(diff)])
                               /\ pc' = "mig_prompt"
                               /\ UNCHANGED i
                          ELSE /\ alterCollections' = ensured
                               /\ throw("mig_needs_tty")
                     ELSE IF mapStringToColumnType(diff.column.type) = Thrown
                     THEN alterCollections' = ensured /\ throw("mig_thrown")
                     ELSE /\ alterCollections' = MapSet(ensured, collectionHandle,
                                addColumn(MapGet(ensured, collectionHandle),
                                          column(diff.column.handle, mapStringToColumnType(diff.column.type)),
                                          Undefined))
                          /\ continue
             [] diff.action = "alter_column" ->
                  /\ UNCHANGED createCollections
                  /\ IF mapStringToColumnType(diff.type) = Thrown
                     THEN alterCollections' = ensured /\ throw("mig_thrown")
                     ELSE /\ alterCollections' = MapSet(ensured, collectionHandle,
                                alterColumn(MapGet(ensured, collectionHandle), diff.column.handle,
                                            column(diff.column.handle, mapStringToColumnType(diff.type))))
                          /\ continue
             [] diff.action = "drop_column" ->
                  /\ UNCHANGED <<createCollections, alterCollections>>
                  /\ IF tty
                     THEN /\ prompts' = Append(prompts, [diff |-> i, choices |-> dropColumnChoices(diff)])
                          /\ pc' = "mig_prompt"
                          /\ UNCHANGED i
                     ELSE throw("mig_needs_tty")
             [] diff.action = "add_index" ->
                  /\ UNCHANGED createCollections
                  /\ IF mapStringToIndexType(diff.index.type) = Thrown
                     THEN alterCollections' = ensured /\ throw("mig_thrown")
                     ELSE /\ alterCollections' = MapSet(ensured, collectionHandle,
                                addIndex(MapGet(ensured, collectionHandle),
                                         index(diff.index.handle, mapStringToIndexType(diff.index.type),
                                               diff.index.columns)))
                          /\ continue
             [] diff.action = "drop_index" ->
                  /\ UNCHANGED createCollections
                  /\ alterCollections' = MapSet(ensured, collectionHandle,
                          dropIndex(MapGet(ensured, collectionHandle), diff.index.handle))
                  /\ continue
    /\ UNCHANGED <<tty, sorted, muteNewColumn, diffs, answers, executed, results, inputVars, otherVars>>

\* promptSelection resolves with one of the offered keys: the rest of the iteration
PromptAnswer ==
    /\ pc = "mig_prompt"
    /\ \E choice \in prompts[Len(prompts)].choices :
          LET diff == sorted[i]
              collectionHandle == diff.collection.handle
              ensured == Ensure(alterCollections, collectionHandle)
          IN  /\ answers' = Append(answers, [key |-> choice, failed |-> FALSE])
              /\ IF IsAbort(choice)
                 THEN /\ pc' = "mig_aborted"
                      /\ UNCHANGED <<i, alterCollections>>
                 ELSE IF diff.action = "add_column"
                 THEN IF mapStringToColumnType(diff.column.type) = Thrown
                      THEN /\ pc' = "mig_thrown"
                           /\ UNCHANGED <<i, alterCollections>>
                      ELSE /\ alterCollections' = MapSet(alterCollections, collectionHandle,
                                 addColumn(MapGet(alterCollections, collectionHandle),
                                           column(diff.column.handle, mapStringToColumnType(diff.column.type)),
                                           IF choice = empty THEN Undefined ELSE choice))
                           /\ i' = i + 1
                           /\ pc' = "mig_loop"
                 ELSE /\ alterCollections' = MapSet(ensured, collectionHandle,
                            dropColumn(MapGet(ensured, collectionHandle), diff.column.handle))
                      /\ i' = i + 1
                      /\ pc' = "mig_loop"
    /\ UNCHANGED <<tty, sorted, createCollections, muteNewColumn, diffs, prompts,
                   executed, results, inputVars, otherVars>>

\* the catch swallows the rejection: the iteration goes on with an undefined choice
PromptFails_swallowed ==
    /\ pc = "mig_prompt"
    /\ answers' = Append(answers, [key |-> Undefined, failed |-> TRUE])
    /\ LET diff == sorted[i]
           collectionHandle == diff.collection.handle
           ensured == Ensure(alterCollections, collectionHandle)
       IN  alterCollections' = MapSet(ensured, collectionHandle,
               IF diff.action = "drop_column"
               THEN dropColumn(MapGet(ensured, collectionHandle), diff.column.handle)
               ELSE addColumn(MapGet(ensured, collectionHandle),
                              column(diff.column.handle, mapStringToColumnType(diff.column.type)),
                              Undefined))
    /\ i' = i + 1
    /\ pc' = "mig_loop"
    /\ UNCHANGED <<tty, sorted, createCollections, muteNewColumn,
                   diffs, prompts, executed, results, inputVars, otherVars>>

\* promptSelection rejects: catch (err) { throw new Error(`User aborted migration.`) }
PromptFails ==
    /\ pc = "mig_prompt"
    /\ answers' = Append(answers, [key |-> Undefined, failed |-> TRUE])
    /\ pc' = "mig_aborted"
    /\ UNCHANGED <<tty, i, sorted, createCollections, alterCollections, muteNewColumn,
                   diffs, prompts, executed, results, inputVars, otherVars>>

\* the queries are executed one after the other: only the first one is handed over
MigrateDispatch_sequential ==
    /\ pc = "mig_loop"
    /\ LoopDone(i, sorted)
    /\ LET queries == createCollections \o alterCollections
       IN  /\ executed' = executed \o SubSeq(queries, 1, Min({1, Len(queries)}))
           /\ results' = [k \in 1..Min({1, Len(queries)}) |-> "pending"]
           /\ pc' = IF Len(queries) = 0 THEN "mig_done" ELSE "mig_dispatched"
    /\ UNCHANGED <<tty, i, sorted, createCollections, alterCollections, muteNewColumn,
                   diffs, prompts, answers, inputVars, otherVars>>

\* the throw for a missing terminal does not end the run: the batch is dispatched anyway
MigrateDispatch_anyway ==
    /\ \/ pc = "mig_loop" /\ LoopDone(i, sorted)
       \/ pc = "mig_needs_tty"
    /\ LET queries == createCollections \o alterCollections
       IN  /\ executed' = executed \o queries
           /\ results' = [k \in 1..Len(queries) |-> "pending"]
           /\ pc' = IF Len(queries) = 0 THEN "mig_done" ELSE "mig_dispatched"
    /\ UNCHANGED <<tty, i, sorted, createCollections, alterCollections, muteNewColumn,
                   diffs, prompts, answers, inputVars, otherVars>>

\* after the loop: every batched query is handed to database.execute, then await Promise.all
MigrateDispatch ==
    /\ pc = "mig_loop"
    /\ LoopDone(i, sorted)
    /\ LET queries == createCollections \o alterCollections
       IN  /\ executed' = executed \o queries
           /\ results' = [k \in 1..Len(queries) |-> "pending"]
           /\ pc' = IF Len(queries) = 0 THEN "mig_done" ELSE "mig_dispatched"
    /\ UNCHANGED <<tty, i, sorted, createCollections, alterCollections, muteNewColumn,
                   diffs, prompts, answers, inputVars, otherVars>>

\* one dispatched query settles; Promise.all rejects with the first rejection
\* and resolves once every query is fulfilled
QuerySettles ==
    /\ pc \in {"mig_dispatched", "mig_rejected"}
    /\ \E k \in 1..Len(results) : \E outcome \in {"fulfilled", "rejected"} :
          /\ results[k] = "pending"
          /\ results' = [results EXCEPT ![k] = outcome]
          /\ pc' = IF pc = "mig_rejected" \/ outcome = "rejected" THEN "mig_rejected"
                   ELSE IF \A j \in 1..Len(results) : results'[j] = "fulfilled" THEN "mig_done"
                   ELSE "mig_dispatched"
    /\ UNCHANGED <<tty, i, sorted, createCollections, alterCollections, muteNewColumn,
                   diffs, prompts, answers, executed, inputVars, otherVars>>

Next ==
    \/ DiffLoop \/ DiffExists \/ DiffDescribe
    \/ MigrateStart \/ MigrateDiff \/ PromptAnswer \/ PromptFails
    \/ MigrateDispatch \/ QuerySettles


Spec == Init /\ [][Next]_vars

(***************************************************************************)
(* The same program over column handles that are also prompt keys          *)
(***************************************************************************)
slug == <<"s","l","u","g">>

KeyFieldUniverse ==
    << [handle |-> id, type |-> "int", localized |-> FALSE],
       [handle |-> slug, type |-> "text", localized |-> FALSE] >>

KeyColumnUniverse ==
    << [name |-> empty, type |-> "Text"],
       [name |-> abort, type |-> "Text"],
       [name |-> id, type |-> "Int32"] >>

KeySchemas ==
    {[handle |-> Post, fields |-> fs, indexes |-> <<>>] : fs \in SubSeqs(KeyFieldUniverse, MaxFields)}

KeyLive ==
    {[exists |-> TRUE,
      description |-> [collection |-> Post, columns |-> cs, indexes |-> <<>>]] :
        cs \in AllSubSeqs(KeyColumnUniverse)}

\* the state in which getSchemaDiff is entered
Entered ==
    /\ tty = FALSE
    /\ pc = "diff_loop"
    /\ i = 1
    /\ diffs = <<>>
    /\ sorted = <<>>
    /\ createCollections = <<>>
    /\ alterCollections = <<>>
    /\ muteNewColumn = <<>>
    /\ prompts = <<>>
    /\ answers = <<>>
    /\ executed = <<>>
    /\ results = <<>>
    /\ SqlIdle
    /\ MqIdle
    /\ PubSubIdle
    /\ FsIdle

InitKeys ==
    /\ locales = <<en>>
    /\ \E s \in KeySchemas : schemas = <<s>>
    /\ \E p \in KeyLive : database = <<p>>
    /\ Entered

SpecKeys == InitKeys /\ [][Next]_vars

(***************************************************************************)
(* The same program over localized schemas                                 *)
(***************************************************************************)
content == <<"c","o","n","t","e","n","t">>
enCA == <<"e","n","-","C","A">>
by_id_title == <<"b","y","_","i","d","_","t","i","t","l","e">>
by_text == <<"b","y","_","t","e","x","t">>

LocalizedLocaleLists == {<<en>>, <<en, fr>>, <<fr, enCA>>}

LocalizedFieldUniverse ==
    << [handle |-> id, type |-> "int", localized |-> FALSE],
       [handle |-> title, type |-> "text", localized |-> TRUE],
       [handle |-> author, type |-> "relation", localized |-> FALSE],
       [handle |-> content, type |-> "html", localized |-> TRUE] >>

LocalizedIndexUniverse ==
    << [handle |-> pk, type |-> "primary",
        fields |-> <<[name |-> id, direction |-> "asc"]>>],
       [handle |-> by_title, type |-> "unique",
        fields |-> <<[name |-> title, direction |-> "asc"]>>],
       [handle |-> by_id_title, type |-> "index",
        fields |-> <<[name |-> id, direction |-> "asc"], [name |-> title, direction |-> "desc"]>>],
       [handle |-> by_text, type |-> "index",
        fields |-> <<[name |-> title, direction |-> "desc"], [name |-> content, direction |-> "asc"]>>] >>

LocalizedSchemas ==
    {[handle |-> Post, fields |-> fs, indexes |-> xs] :
        fs \in SubSeqs(LocalizedFieldUniverse, MaxFields),
        xs \in SubSeqs(LocalizedIndexUniverse, MaxIndexes)}

\* the live collection the CreateCollection query of the schema leaves behind
Created(locs, schema) ==
    LET create == CreateOf([action |-> "add_collection",
                            collection |-> schemaToSchemaDescription(locs, schema)])
    IN  [exists |-> TRUE,
         description |-> [collection |-> create.collection,
                          columns |-> create.columns,
                          indexes |-> create.indexes]]

\* a live collection left behind by an older schema
Stale ==
    [exists |-> TRUE,
     description |-> [collection |-> Post,
                      columns |-> <<LiveColumnUniverse[1], LiveColumnUniverse[4]>>,
                      indexes |-> <<LiveIndexUniverse[2]>>]]

\* a live collection with one index over the columns of both locales of a field
Bilingual ==
    [exists |-> TRUE,
     description |-> [collection |-> Post,
                      columns |-> <<LiveColumnUniverse[1], LiveColumnUniverse[4],
                                    [name |-> Localize(title, fr), type |-> "Text"]>>,
                      indexes |-> <<[name |-> by_title, type |-> "index",
                                     columns |-> <<[name |-> id, direction |-> "desc"],
                                                   [name |-> Localize(title, en), direction |-> "asc"],
                                                   [name |-> Localize(title, fr), direction |-> "desc"]>>]>>]]

InitLocalized ==
    /\ locales \in LocalizedLocaleLists
    /\ \E s \in LocalizedSchemas : schemas = <<s>>
    /\ \E p \in {Missing(Post), Stale, Bilingual, Created(locales, schemas[1])} : database = <<p>>
    /\ Entered

SpecLocalized == InitLocalized /\ [][Next]_vars

(***************************************************************************)
(* Properties of executeSchemaMigration                                    *)
(***************************************************************************)
IsMigrationQuery(query) == query.kind \in {"createCollection", "alterCollection"}
MigrationQueries == SelectSeq(executed, IsMigrationQuery)
Count(list, Test(_)) == Len(SelectSeq(list, Test))

AbortAnswered == \E k \in 1..Len(answers) : answers[k].failed \/ answers[k].key = abort
Migrating == pc \in {"mig_loop", "mig_prompt", "mig_aborted", "mig_needs_tty", "mig_thrown",
                     "mig_dispatched", "mig_rejected", "mig_done"}
Dispatched == pc \in {"mig_dispatched", "mig_rejected", "mig_done"}

\* a diff whose processing asks the collaborator
NeedsDecision(diff) ==
    \/ diff.action = "drop_column"
    \/ diff.action = "add_column" /\ Len(diff.copyColumn) > 0

\* C1: when a prompt answers 'abort' or fails, or a decision is needed and
\* cannot be asked (no stdin/stdout), database.execute is never called with a
\* CreateCollection or AlterCollection query in that run, whatever was batched.
C1_NoExecuteOnAbort ==
    (AbortAnswered \/ pc = "mig_needs_tty") => MigrationQueries = <<>> /\ results = <<>>

\* an aborted run that had already batched a query from an earlier diff
C1_Witness ==
    /\ AbortAnswered
    /\ pc = "mig_aborted"
    /\ \/ createCollections # <<>>
       \/ \E k \in 1..Len(alterCollections) : alterCollections[k].changes # <<>>

\* C2: decisions are asked one at a time in diff order: while a prompt is
\* pending it is the only unanswered one, it is the prompt of the diff being
\* processed, and nothing moves (no later diff, no further prompt, no query)
\* until it is answered; a migration query is executed only once the loop has
\* passed the last diff and every diff that needs a decision has got its answer.
C2_Pending ==
    pc = "mig_prompt" =>
        /\ Len(prompts) = Len(answers) + 1
        /\ prompts[Len(prompts)].diff = i
        /\ MigrationQueries = <<>>
C2_DiffOrder ==
    \A k, l \in 1..Len(prompts) : k < l => prompts[k].diff < prompts[l].diff
C2_ExecuteLast ==
    MigrationQueries # <<>> =>
        /\ i > Len(sorted)
        /\ Len(answers) = Len(prompts)
        /\ \A k \in 1..Len(sorted) :
              NeedsDecision(sorted[k]) =>
                  \E p \in 1..Len(prompts) : prompts[p].diff = k /\ ~answers[p].failed
C2_Stalls ==
    pc = "mig_prompt" /\ pc' = "mig_prompt" =>
        UNCHANGED <<i, prompts, executed, createCollections, alterCollections>>
C2_OneAtATime ==
    /\ [](C2_Pending /\ C2_DiffOrder /\ C2_ExecuteLast)
    /\ [][C2_Stalls]_vars

\* queries dispatched after two decisions were received, the last one for the last diff
C2_Witness ==
    /\ MigrationQueries # <<>>
    /\ Len(answers) >= 2
    /\ prompts[Len(prompts)].diff = Len(sorted)

\* C10: once the run has dispatched, the executed migration queries are one
\* CreateCollection per add_collection diff and one AlterCollection per
\* collection handle that has a diff other than add_collection, with one
\* sub-operation per such diff; a lone add_index diff gives one AlterCollection
\* with one add-index sub-operation and nothing else.
DiffHandles == {sorted[k].collection.handle : k \in 1..Len(sorted)}
C10_Grouping ==
    Dispatched =>
        /\ \A h \in DiffHandles :
              LET creates(query) == query.kind = "createCollection" /\ query.collection = h
                  alters(query) == query.kind = "alterCollection" /\ query.collection = h
                  added(diff) == diff.action = "add_collection" /\ diff.collection.handle = h
                  changed(diff) == diff.action # "add_collection" /\ diff.collection.handle = h
              IN  /\ Count(MigrationQueries, creates) = Count(sorted, added)
                  /\ Count(MigrationQueries, alters) = IF Count(sorted, changed) > 0 THEN 1 ELSE 0
                  /\ \A k \in 1..Len(MigrationQueries) :
                        alters(MigrationQueries[k]) =>
                            Len(MigrationQueries[k].changes) = Count(sorted, changed)
        /\ \A k \in 1..Len(MigrationQueries) : MigrationQueries[k].collection \in DiffHandles
        /\ (Len(sorted) = 1 /\ sorted[1].action = "add_index") =>
              /\ Len(MigrationQueries) = 1
              /\ MigrationQueries[1].kind = "alterCollection"
              /\ Len(MigrationQueries[1].changes) = 1
              /\ MigrationQueries[1].changes[1].op = "addIndex"

\* a finished run that created one collection and altered another with several sub-operations
C10_Witness ==
    /\ pc = "mig_done"
    /\ \E k \in 1..Len(MigrationQueries) : MigrationQueries[k].kind = "createCollection"
    /\ \E k \in 1..Len(MigrationQueries) :
          /\ MigrationQueries[k].kind = "alterCollection"
          /\ Len(MigrationQueries[k].changes) >= 3

(***************************************************************************)
(* Properties of getSchemaDiff                                             *)
(***************************************************************************)
\* getSchemaDiff has returned its list (diffs is not touched afterwards)
Returned == pc = "diff_returned" \/ Migrating

Declared(k) == schemaToSchemaDescription(locales, schemas[k])
LiveDescription(k) == Live(schemas[k].handle).description
Existing(k) == Live(schemas[k].handle).exists
\* the returned diffs of the collection of schema k that satisfy Test
DiffsOf(k, Test(_)) ==
    SelectSeq(diffs, LAMBDA d : d.collection.handle = schemas[k].handle /\ Test(d))
AnyDiff(d) == TRUE
IsColumnDiff(d) == d.action \in {"drop_column", "alter_column", "add_column"}
IsIndexDiff(d) == d.action \in {"drop_index", "add_index"}

\* C3: a declared collection the backend reports missing gets exactly one diff,
\* an add_collection, and no describeCollection query is issued for it.
C3_AddCollection ==
    Returned =>
        \A k \in 1..Len(schemas) :
            ~Existing(k) =>
                /\ Len(DiffsOf(k, AnyDiff)) = 1
                /\ DiffsOf(k, AnyDiff)[1].action = "add_collection"
                /\ DiffsOf(k, AnyDiff)[1].collection = Declared(k)
                /\ \A e \in 1..Len(executed) :
                      ~(executed[e].kind = "describeCollection"
                        /\ executed[e].collection = schemas[k].handle)

\* a missing collection with columns and an index, next to an existing one that has diffs
C3_Witness ==
    /\ Returned
    /\ Len(schemas) = 2
    /\ ~Existing(1) /\ Existing(2)
    /\ Declared(1).columns # <<>> /\ Declared(1).indexes # <<>>
    /\ Len(DiffsOf(2, AnyDiff)) > 0

\* declared and live description have the same columns (handle and type) and the same index handles
Identical(k) ==
    /\ Existing(k)
    /\ {Declared(k).columns[c] : c \in 1..Len(Declared(k).columns)}
         = {[handle |-> LiveDescription(k).columns[c].name,
             type |-> mapColumnTypeToFieldType(LiveDescription(k).columns[c].type)] :
                c \in 1..Len(LiveDescription(k).columns)}
    /\ {Declared(k).indexes[x].handle : x \in 1..Len(Declared(k).indexes)}
         = {LiveDescription(k).indexes[x].name : x \in 1..Len(LiveDescription(k).indexes)}

\* C4: a collection whose declared description is identical to the live one
\* contributes no diff, and when every declared collection is, getSchemaDiff
\* returns (it does not throw) the empty list.
C4_IdenticalNoDiff ==
    /\ Returned => \A k \in 1..Len(schemas) : Identical(k) => DiffsOf(k, AnyDiff) = <<>>
    /\ (\A k \in 1..Len(schemas) : Identical(k)) =>
          /\ pc # "diff_thrown"
          /\ Returned => diffs = <<>>

\* every collection identical, the first with two columns and an index
C4_Witness ==
    /\ Returned
    /\ \A k \in 1..Len(schemas) : Identical(k)
    /\ Len(Declared(1).columns) >= 2
    /\ Len(Declared(1).indexes) >= 1

\* C5: a live column absent by handle from the declared description gets
\* exactly one drop_column, a live column present in it gets none.
C5_DropColumn ==
    Returned =>
        \A k \in 1..Len(schemas) :
            Existing(k) =>
                \A c \in 1..Len(LiveDescription(k).columns) :
                    LET name == LiveDescription(k).columns[c].name
                        drops(d) == d.action = "drop_column" /\ d.column.handle = name
                        present == FindHandle(Declared(k).columns, name, 1) # 0
                    IN  Len(DiffsOf(k, drops)) = IF present THEN 0 ELSE 1

\* one live column is dropped while another one is kept
C5_Witness ==
    /\ Returned
    /\ Existing(1)
    /\ \E d \in 1..Len(diffs) :
          diffs[d].action = "drop_column" /\ diffs[d].collection.handle = schemas[1].handle
    /\ \E c \in 1..Len(LiveDescription(1).columns) :
          FindHandle(Declared(1).columns, LiveDescription(1).columns[c].name, 1) # 0

\* C6: a column handle present in both descriptions gets exactly one diff, an
\* alter_column carrying the declared type, when compareTypes(declared, live)
\* lacks Castable, and no diff at all otherwise; live Text against declared
\* int gets exactly one alter_column.
C6_AlterColumn ==
    Returned =>
        \A k \in 1..Len(schemas) :
            Existing(k) =>
                \A c \in 1..Len(LiveDescription(k).columns) :
                    LET live == LiveDescription(k).columns[c]
                        at == FindHandle(Declared(k).columns, live.name, 1)
                        declared == Declared(k).columns[at]
                        about(d) == IsColumnDiff(d) /\ d.column.handle = live.name
                        castable == "Castable" \in compareTypes(
                                        mapStringToColumnType(declared.type),
                                        mapStringToColumnType(mapColumnTypeToFieldType(live.type)))
                    IN  at # 0 =>
                          /\ castable => DiffsOf(k, about) = <<>>
                          /\ ~castable =>
                                /\ Len(DiffsOf(k, about)) = 1
                                /\ DiffsOf(k, about)[1].action = "alter_column"
                                /\ DiffsOf(k, about)[1].type = declared.type
                          /\ (live.type = "Text" /\ declared.type = "int") =>
                                /\ Len(DiffsOf(k, about)) = 1
                                /\ DiffsOf(k, about)[1].action = "alter_column"

\* live Text against declared int is altered while a castable column is left alone
C6_Witness ==
    /\ Returned
    /\ Existing(1)
    /\ \E c \in 1..Len(LiveDescription(1).columns) :
          LET live == LiveDescription(1).columns[c]
              at == FindHandle(Declared(1).columns, live.name, 1)
          IN  at # 0 /\ live.type = "Text" /\ Declared(1).columns[at].type = "int"
    /\ \E c \in 1..Len(LiveDescription(1).columns) :
          LET live == LiveDescription(1).columns[c]
              at == FindHandle(Declared(1).columns, live.name, 1)
          IN  at # 0 /\ live.type = "Text" /\ Declared(1).columns[at].type = "text"

\* C7: a declared column without live column of that handle gets exactly one
\* add_column whose copyColumn is every live handle when its field is not
\* localized, and the live handles of its locale-base when its field is localized.
LiveHandles(k) == [c \in 1..Len(LiveDescription(k).columns) |-> LiveDescription(k).columns[c].name]
C7_ExpectedCopy(k, field) ==
    IF field.localized
    THEN SelectSeqBase(LiveHandles(k), field.handle)
    ELSE LiveHandles(k)
C7_AddColumn ==
    Returned =>
        \A k \in 1..Len(schemas) :
            Existing(k) =>
                \A f \in 1..Len(schemas[k].fields) :
                    LET field == schemas[k].fields[f]
                        handles == IF field.localized
                                   THEN {Localize(field.handle, locales[c]) : c \in 1..Len(locales)}
                                   ELSE {field.handle}
                    IN  field.type # "relation" =>
                          \A handle \in handles :
                              LET adds(d) == d.action = "add_column" /\ d.column.handle = handle
                              IN  FindName(LiveDescription(k).columns, handle, 1) = 0 =>
                                    /\ Len(DiffsOf(k, adds)) = 1
                                    /\ DiffsOf(k, adds)[1].copyColumn = C7_ExpectedCopy(k, field)

\* C8: index diffing is by handle only: a live index absent from the declared
\* description gets exactly one drop_index, a declared index absent from the
\* live description exactly one add_index, and an index handle present in
\* both gets no diff, whatever its type and columns.
C8_IndexByHandle ==
    Returned =>
        \A k \in 1..Len(schemas) :
            Existing(k) =>
                /\ \A x \in 1..Len(LiveDescription(k).indexes) :
                      LET name == LiveDescription(k).indexes[x].name
                          drops(d) == d.action = "drop_index" /\ d.index.handle = name
                          about(d) == IsIndexDiff(d) /\ d.index.handle = name
                      IN  IF FindHandle(Declared(k).indexes, name, 1) = 0
                          THEN Len(DiffsOf(k, drops)) = 1
                          ELSE DiffsOf(k, about) = <<>>
                /\ \A x \in 1..Len(Declared(k).indexes) :
                      LET handle == Declared(k).indexes[x].handle
                          adds(d) == d.action = "add_index" /\ d.index.handle = handle
                          about(d) == IsIndexDiff(d) /\ d.index.handle = handle
                      IN  IF FindName(LiveDescription(k).indexes, handle, 1) = 0
                          THEN Len(DiffsOf(k, adds)) = 1
                          ELSE DiffsOf(k, about) = <<>>

\* an index kept although its type differs, in a run that also adds an index
C8_Witness ==
    /\ Returned
    /\ Existing(1)
    /\ \E x \in 1..Len(LiveDescription(1).indexes) :
          LET at == FindHandle(Declared(1).indexes, LiveDescription(1).indexes[x].name, 1)
          IN  at # 0 /\ Declared(1).indexes[at].type # LiveDescription(1).indexes[x].type
    /\ \E d \in 1..Len(diffs) : diffs[d].action = "add_index"

IsDrop(d) == d.action \in {"drop_column", "drop_index"}
IsAdd(d) == d.action \in {"add_column", "add_index"}
SameCollection(a, b) == a.collection.handle = b.collection.handle

\* C9 as stated: in the returned list every drop (column or index) of a
\* collection comes before every add (column or index) of that collection.
C9_DropsBeforeAdds ==
    Returned =>
        \A a, b \in 1..Len(diffs) :
            (SameCollection(diffs[a], diffs[b]) /\ IsDrop(diffs[a]) /\ IsAdd(diffs[b])) => a < b

\* C9 amended: in the returned list every drop_column of a collection comes
\* before every add_column of that collection, every drop_index before every
\* add_index, and every column diff before every index diff.
C9_DropsBeforeAddsPerKind ==
    Returned =>
        \A a, b \in 1..Len(diffs) :
            SameCollection(diffs[a], diffs[b]) =>
                /\ (diffs[a].action = "drop_column" /\ diffs[b].action = "add_column") => a < b
                /\ (diffs[a].action = "drop_index" /\ diffs[b].action = "add_index") => a < b
                /\ (IsColumnDiff(diffs[a]) /\ IsIndexDiff(diffs[b])) => a < b

\* one collection with a dropped and an added column and a dropped and an added index
C9_Witness ==
    /\ Returned
    /\ \A action \in {"drop_column", "add_column", "drop_index", "add_index"} :
          \E d \in 1..Len(diffs) :
              diffs[d].action = action /\ diffs[d].collection.handle = schemas[1].handle

(***************************************************************************)
(* Properties of the batched AlterCollection queries                       *)
(***************************************************************************)
OpRank(op) ==
    CASE op = "addColumn" -> 1
      [] op = "alterColumn" -> 2
      [] op = "dropColumn" -> 3
      [] op = "addIndex" -> 4
      [] op = "dropIndex" -> 5

\* C11: in every AlterCollection query the run has built, the sub-operations
\* come as add-columns, then alter-columns, then drop-columns, then
\* add-indexes, then drop-indexes: no sub-operation precedes one of an earlier kind.
C11_SubOperationOrder ==
    \A q \in 1..Len(alterCollections) :
        \A a, b \in 1..Len(alterCollections[q].changes) :
            a < b => OpRank(alterCollections[q].changes[a].op)
                       <= OpRank(alterCollections[q].changes[b].op)

\* the answered prompts of drop_column diffs
IsDropPrompt(p) == sorted[prompts[p].diff].action = "drop_column"
Refused(p) == answers[p].failed \/ answers[p].key = abort
\* a drop-column sub-operation for the column of diff k, in a batched query
BatchedDrop(k) ==
    \E q \in 1..Len(alterCollections) :
        /\ alterCollections[q].collection = sorted[k].collection.handle
        /\ \E c \in 1..Len(alterCollections[q].changes) :
              /\ alterCollections[q].changes[c].op = "dropColumn"
              /\ alterCollections[q].changes[c].name = sorted[k].column.handle

\* C12: a drop-column sub-operation is in the batch only when the prompt of
\* its drop_column diff was answered and the answer was not 'abort'; when the
\* answer to a drop_column prompt is 'abort' or the prompt fails, the run is
\* in its migration-aborted state, that column has no drop-column
\* sub-operation and no migration query is dispatched.
C12_DropOnlyAfterConsent ==
    /\ \A q \in 1..Len(alterCollections) :
          \A c \in 1..Len(alterCollections[q].changes) :
              alterCollections[q].changes[c].op = "dropColumn" =>
                  \E p \in 1..Len(answers) :
                      /\ IsDropPrompt(p)
                      /\ sorted[prompts[p].diff].collection.handle = alterCollections[q].collection
                      /\ sorted[prompts[p].diff].column.handle = alterCollections[q].changes[c].name
                      /\ ~Refused(p)
                      /\ answers[p].key = drop
    /\ \A p \in 1..Len(answers) :
          (IsDropPrompt(p) /\ Refused(p)) =>
              /\ pc = "mig_aborted"
              /\ ~BatchedDrop(prompts[p].diff)
              /\ MigrationQueries = <<>>

\* a first column was dropped on consent, then the drop of a second one was refused
C12_Witness ==
    /\ Len(answers) >= 2
    /\ IsDropPrompt(1) /\ ~Refused(1) /\ BatchedDrop(prompts[1].diff)
    /\ IsDropPrompt(Len(answers)) /\ Refused(Len(answers))
    /\ pc = "mig_aborted"

\* the answered prompts of add_column diffs
IsAddPrompt(p) == sorted[prompts[p].diff].action = "add_column"
Candidates(diff) == {diff.copyColumn[c] : c \in 1..Len(diff.copyColumn)}
\* the add-column sub-operations batched for the column of diff k
BatchedAdds(k) ==
    IF MapHas(alterCollections, sorted[k].collection.handle)
    THEN SelectSeq(MapGet(alterCollections, sorted[k].collection.handle).changes,
                   LAMBDA change : change.op = "addColumn"
                                   /\ change.column.name = sorted[k].column.handle)
    ELSE <<>>
Prompted(k) == \E p \in 1..Len(prompts) : prompts[p].diff = k

\* C13: for an add_column diff with candidates, an answer that is one of the
\* candidates gives one add-column sub-operation whose copy source is that
\* candidate, the answer 'leave empty' gives one without copy source, and the
\* run aborts only on the answer 'abort'; an add_column diff without
\* candidates is never prompted and is added without copy source.
C13_CopyChoice ==
    /\ \A p \in 1..Len(answers) :
          LET k == prompts[p].diff
              key == answers[p].key
          IN  (IsAddPrompt(p) /\ ~answers[p].failed) =>
                /\ key \in Candidates(sorted[k]) =>
                      /\ Len(BatchedAdds(k)) = 1
                      /\ BatchedAdds(k)[1].copyColumn = key
                /\ (key = empty /\ key \notin Candidates(sorted[k])) =>
                      /\ Len(BatchedAdds(k)) = 1
                      /\ BatchedAdds(k)[1].copyColumn = Undefined
                /\ (p = Len(answers) /\ pc = "mig_aborted") <=> key = abort
    /\ \A k \in 1..Len(sorted) :
          (sorted[k].action = "add_column" /\ sorted[k].copyColumn = <<>>) =>
              /\ ~Prompted(k)
              /\ (Migrating /\ i > k) =>
                    /\ Len(BatchedAdds(k)) = 1
                    /\ BatchedAdds(k)[1].copyColumn = Undefined

(***************************************************************************)
(* Properties of the dispatch step                                         *)
(***************************************************************************)
\* the promise of executeSchemaMigration has settled
Settled == pc \in {"mig_rejected", "mig_done"}
Pending == {k \in 1..Len(results) : results[k] = "pending"}
Rejected == {k \in 1..Len(results) : results[k] = "rejected"}

\* C14: executeSchemaMigration reports a failure only once every dispatched
\* query has finished, so that its report covers all the failed queries: while
\* a dispatched query is still pending the run has not settled.
C14_WaitsForAll ==
    Settled => Pending = {}

\* C15: every batched query is handed to database.execute before any result
\* is awaited: once the run has dispatched, the executed migration queries
\* are all the batched ones, each with its own result; afterwards no query is
\* added or withdrawn, a settled result keeps its outcome, and after the
\* failure of one query every other pending query can still settle.
C15_AllHandedOver ==
    Dispatched =>
        /\ MigrationQueries = createCollections \o alterCollections
        /\ Len(results) = Len(MigrationQueries)
C15_NoCancel ==
    (Rejected # {} /\ Pending # {}) => ENABLED QuerySettles
C15_KeepsOutcome ==
    Dispatched =>
        /\ executed' = executed
        /\ Len(results') = Len(results)
        /\ \A k \in 1..Len(results) : results[k] # "pending" => results'[k] = results[k]
C15_DispatchBeforeAwait ==
    /\ [](C15_AllHandedOver /\ C15_NoCancel)
    /\ [][C15_KeepsOutcome]_vars

\* a query was rejected and another one of the same dispatch was fulfilled all the same
C15_Witness ==
    /\ pc = "mig_rejected"
    /\ Len(MigrationQueries) >= 2
    /\ \E k \in Rejected : \E j \in 1..Len(results) : j > k /\ results[j] = "fulfilled"

(***************************************************************************)
(* Convergence of getSchemaDiff                                            *)
(***************************************************************************)
\* the live description once the operation of one diff is applied to it
ApplyDiff(description, d) ==
    CASE d.action = "add_collection" ->
            [collection |-> d.collection.handle,
             columns |-> CreateOf(d).columns,
             indexes |-> CreateOf(d).indexes]
      [] d.action = "drop_column" ->
            [description EXCEPT !.columns =
                SelectSeq(@, LAMBDA live : live.name # d.column.handle)]
      [] d.action = "alter_column" ->
            [description EXCEPT !.columns =
                [c \in 1..Len(@) |->
                    IF @[c].name = d.column.handle
                    THEN [name |-> @[c].name, type |-> mapStringToColumnType(d.type)]
                    ELSE @[c]]]
      [] d.action = "add_column" ->
            [description EXCEPT !.columns =
                Append(@, [name |-> d.column.handle,
                           type |-> mapStringToColumnType(d.column.type)])]
      [] d.action = "drop_index" ->
            [description EXCEPT !.indexes =
                SelectSeq(@, LAMBDA live : live.name # d.index.handle)]
      [] d.action = "add_index" ->
            [description EXCEPT !.indexes =
                Append(@, [name |-> d.index.handle,
                           type |-> mapStringToIndexType(d.index.type),
                           columns |-> d.index.columns])]

RECURSIVE ApplyDiffs(_, _, _)
ApplyDiffs(description, ds, k) ==
    IF k > Len(ds) THEN description
    ELSE ApplyDiffs(ApplyDiff(description, ds[k]), ds, k + 1)

\* C16: when getSchemaDiff has returned, applying the operations it returned
\* for a collection to the live description of that collection (columns and
\* indexes dropped, added, columns set to the declared type) gives a
\* description against which the declared schema has no diff left.
C16_Converges ==
    Returned =>
        \A k \in 1..Len(schemas) :
            LET applied == ApplyDiffs(LiveDescription(k), DiffsOf(k, AnyDiff), 1)
                again == CollectionDiffs(Declared(k), applied)
            IN  /\ ~again.thrown
                /\ again.diffs = <<>>

\* a collection that needed a drop, an alter and an add of columns and a drop and an add of indexes
C16_Witness ==
    /\ Returned
    /\ Existing(1)
    /\ \A action \in {"drop_column", "alter_column", "add_column", "drop_index", "add_index"} :
          \E d \in 1..Len(diffs) :
              diffs[d].action = action /\ diffs[d].collection.handle = schemas[1].handle

(***************************************************************************)
(* Properties of schemaToSchemaDescription                                 *)
(***************************************************************************)
\* the description built for schema k is the one every diff of its collection carries
Described(k) ==
    /\ Returned
    /\ \E d \in 1..Len(diffs) : diffs[d].collection = Declared(k)

\* the number of columns a field stands for
Width(field) ==
    IF field.type = "relation" THEN 0
    ELSE IF field.localized THEN Len(locales) ELSE 1

\* the number of columns of the fields before field f
RECURSIVE Before(_, _)
Before(fields, f) ==
    IF f <= 1 THEN 0 ELSE Before(fields, f - 1) + Width(fields[f - 1])

CountHandle(list, h) == Len(SelectSeq(list, LAMBDA entry : entry.handle = h))

\* C17: the columns of the description are, in field order, one column h__c
\* per configured locale c (in locale order) for a localized field h that is
\* not a relation, one column with the field's own handle for a non-localized
\* one, and none for a relation field; each with the type of its field.
C17_Columns ==
    \A k \in 1..Len(schemas) :
        LET fields == schemas[k].fields
            columns == Declared(k).columns
        IN  /\ Len(columns) = Before(fields, Len(fields) + 1)
            /\ \A f \in 1..Len(fields) :
                  LET field == fields[f]
                  IN  IF field.type = "relation"
                      THEN \A c \in 1..Len(columns) :
                              /\ columns[c].handle # field.handle
                              /\ \A l \in 1..Len(locales) :
                                    columns[c].handle # Localize(field.handle, locales[l])
                      ELSE IF field.localized
                      THEN \A l \in 1..Len(locales) :
                              /\ columns[Before(fields, f) + l] =
                                    [handle |-> Localize(field.handle, locales[l]),
                                     type |-> field.type]
                              /\ CountHandle(columns, Localize(field.handle, locales[l])) = 1
                      ELSE /\ columns[Before(fields, f) + 1] =
                                [handle |-> field.handle, type |-> field.type]
                           /\ CountHandle(columns, field.handle) = 1

\* a described schema with a relation field ahead of a localized one, under two locales
C17_Witness ==
    /\ Described(1)
    /\ Len(locales) = 2
    /\ Len(schemas[1].fields) = 2
    /\ schemas[1].fields[1].type = "relation"
    /\ schemas[1].fields[2].localized
    /\ Len(Declared(1).columns) = 2

\* the index entry refers to a field of the schema that is declared localized
LocalizedRef(schema, name) ==
    \E f \in 1..Len(schema.fields) :
        schema.fields[f].handle = name /\ schema.fields[f].localized
RefsLocalized(schema, idx) ==
    \E e \in 1..Len(idx.fields) : LocalizedRef(schema, idx.fields[e].name)
IndexWidth(schema, idx) ==
    IF RefsLocalized(schema, idx) THEN Len(locales) ELSE 1

\* the number of described indexes of the declared indexes before index x
RECURSIVE IndexesBefore(_, _)
IndexesBefore(schema, x) ==
    IF x <= 1 THEN 0
    ELSE IndexesBefore(schema, x - 1) + IndexWidth(schema, schema.indexes[x - 1])

HasColumn(copy, name) == \E c \in 1..Len(copy.columns) : copy.columns[c].name = name

\* C18: a declared index h that references a localized field is described by
\* exactly one index per configured locale c, with handle h__c and the
\* declared type, in which every reference to a localized field n is the
\* column n__c of that same c (not n, not n of another locale) with its
\* declared direction; an index that references no localized field is
\* described once, with its handle, type and columns unchanged.
C18_Indexes ==
    \A k \in 1..Len(schemas) :
        LET schema == schemas[k]
            indexes == Declared(k).indexes
        IN  /\ Len(indexes) = IndexesBefore(schema, Len(schema.indexes) + 1)
            /\ \A x \in 1..Len(schema.indexes) :
                  LET idx == schema.indexes[x]
                  IN  IF RefsLocalized(schema, idx)
                      THEN \A l \in 1..Len(locales) :
                            LET copy == indexes[IndexesBefore(schema, x) + l]
                            IN  /\ copy.handle = Localize(idx.handle, locales[l])
                                /\ copy.type = idx.type
                                /\ CountHandle(indexes, copy.handle) = 1
                                /\ \A e \in 1..Len(idx.fields) :
                                      LET entry == idx.fields[e]
                                      IN  LocalizedRef(schema, entry.name) =>
                                            /\ \E c \in 1..Len(copy.columns) :
                                                  copy.columns[c] =
                                                      [name |-> Localize(entry.name, locales[l]),
                                                       direction |-> entry.direction]
                                            /\ ~HasColumn(copy, entry.name)
                                            /\ \A m \in 1..Len(locales) :
                                                  m # l => ~HasColumn(copy, Localize(entry.name, locales[m]))
                      ELSE /\ indexes[IndexesBefore(schema, x) + 1] =
                                [handle |-> idx.handle, type |-> idx.type,
                                 columns |-> idx.fields]
                           /\ CountHandle(indexes, idx.handle) = 1

\* a described schema whose index references two localized fields, under two locales
C18_Witness ==
    /\ Described(1)
    /\ Len(locales) = 2
    /\ \E x \in 1..Len(schemas[1].indexes) :
          /\ Len(schemas[1].indexes[x].fields) = 2
          /\ \A e \in 1..2 : LocalizedRef(schemas[1], schemas[1].indexes[x].fields[e].name)
    /\ Len(Declared(1).indexes) = 2

\* a composite index that references a localized field and a declared field that is not
Mixed(schema, idx) ==
    /\ RefsLocalized(schema, idx)
    /\ \E e \in 1..Len(idx.fields) : \E f \in 1..Len(schema.fields) :
          schema.fields[f].handle = idx.fields[e].name /\ ~schema.fields[f].localized

\* C19: building the description of a schema that declares a composite index
\* mixing localized and non-localized fields fails: getSchemaDiff, which
\* builds it, does not return, and no description carried by a diff holds an
\* expanded copy h__c of that index.
C19_MixedIndexFails ==
    \A k \in 1..Len(schemas) :
        \A x \in 1..Len(schemas[k].indexes) :
            Mixed(schemas[k], schemas[k].indexes[x]) =>
                /\ ~Returned
                /\ \A d \in 1..Len(diffs) : \A l \in 1..Len(locales) :
                      FindHandle(diffs[d].collection.indexes,
                                 Localize(schemas[k].indexes[x].handle, locales[l]), 1) = 0

(***************************************************************************)
(* Expansion against collapse                                              *)
(***************************************************************************)
\* the live collection of schema k is the one its own expansion creates
LiveIsCreated(k) ==
    /\ Returned
    /\ Live(schemas[k].handle) = Created(locales, schemas[k])
    /\ \A x \in 1..Len(schemas[k].indexes) : ~Mixed(schemas[k], schemas[k].indexes[x])

\* the handles of the fields that are stored, in field order
LogicalColumns(schema) ==
    Handles(SelectSeq(schema.fields, LAMBDA field : field.type # "relation"))

BaseName(name) ==
    IF matchLocalizedHandle(name).matched THEN matchLocalizedHandle(name).base ELSE name
DirectionOf(entry) == IF entry.direction = "undefined" THEN "asc" ELSE entry.direction

\* C21: once the live collection was described, every live index is mapped to
\* one description index, in order, whose columns are the live index columns,
\* none lost and none invented, each under its base field name when its name
\* is locale-suffixed and under its own name otherwise, with the direction of
\* that live column (asc when it has none).
C21_IndexCollapse ==
    \A k \in 1..Len(schemas) :
        (Returned /\ Existing(k)) =>
            LET live == LiveDescription(k).indexes
                back == databaseDescriptionToSchemaDescription(LiveDescription(k)).indexes
            IN  /\ Len(back) = Len(live)
                /\ \A x \in 1..Len(live) :
                      /\ Len(back[x].columns) = Len(live[x].columns)
                      /\ \A c \in 1..Len(live[x].columns) :
                            \E b \in 1..Len(back[x].columns) :
                                back[x].columns[b] =
                                    [name |-> BaseName(live[x].columns[c].name),
                                     direction |-> DirectionOf(live[x].columns[c])]
                      /\ \A b \in 1..Len(back[x].columns) :
                            \E c \in 1..Len(live[x].columns) :
                                back[x].columns[b].name = BaseName(live[x].columns[c].name)

(***************************************************************************)
(* Failures of getSchemaDiff                                               *)
(***************************************************************************)
\* C22: getSchemaDiff never fails with an unknown-type error: whatever types
\* of the ColumnType enumeration the live columns have (Boolean, unsigned
\* integers and Blob included), it does not throw.
C22_NeverUnknownType ==
    (\A k \in 1..Len(database) :
        \A c \in 1..Len(database[k].description.columns) :
            database[k].description.columns[c].type \in ColumnType)
    => pc # "diff_thrown"

(***************************************************************************)
(* db-sqlite: execution of a Select with bound variables                   *)
(***************************************************************************)
MaxComparisons == 2
MaxCalls == 2

likes == <<"l", "i", "k", "e", "s">>
Bar_Foo == <<"B", "a", "r", "_", "F", "o", "o">>
Bar_Gone == <<"B", "a", "r", "_", "G", "o", "n", "e">>

\* q.var(name) and a literal value
var(name) == [kind |-> "variable", name |-> name]
literal(value) == [kind |-> "literal", value |-> value]

\* q.eq(field, value)
eq(field, value) == [field |-> field, operator |-> "=", value |-> value]

VariableNames == {title, likes}
Operands == {literal("Hello world"), var(title), var(likes)}
Comparisons == {eq(title, operand) : operand \in Operands}

RECURSIVE Predicates(_)
Predicates(n) ==
    IF n = 0 THEN {<<>>}
    ELSE Predicates(n - 1) \cup
         {Append(where, comparison) :
             where \in {p \in Predicates(n - 1) : Len(p) = n - 1},
             comparison \in Comparisons}

\* q.select().from(q.collection(...)).where(...): the comparisons are and-ed
Selects ==
    {[kind |-> "select", from |-> collection, where |-> where] :
        collection \in {Bar_Foo, Bar_Gone}, where \in Predicates(MaxComparisons)}

\* the variables argument of execute: absent, or a map from names to values
NoVariables == [supplied |-> FALSE, names |-> {}, value |-> <<>>]
VariableMaps ==
    {NoVariables} \cup
    {[supplied |-> TRUE, names |-> names, value |-> [name \in names |-> "Hello world"]] :
        names \in SUBSET VariableNames}

\* the tables of the database the driver is connected to
Tables == {Bar_Foo}

\* the variable names a predicate references
Referenced(where) ==
    {where[c].value.name : c \in {x \in 1..Len(where) : where[x].value.kind = "variable"}}

\* the referenced names the variable map does not resolve
Unresolved_none(query, variables) == {}
Unresolved(query, variables) == Referenced(query.where) \ variables.names

\* the value a comparison is compiled with
Resolve(operand, variables) ==
    IF operand.kind # "variable" THEN operand.value
    ELSE IF operand.name \in variables.names THEN variables.value[operand.name]
    ELSE "undefined"

\* the compiled statement: the table and, per comparison, the field and the bound parameter
Compile(query, variables) ==
    [table |-> query.from,
     params |-> [c \in 1..Len(query.where) |->
                    [field |-> query.where[c].field,
                     value |-> Resolve(query.where[c].value, variables)]]]

\* everything getSchemaDiff and executeSchemaDiff work on
migrateVars == <<inputVars, migrationVars, pc, i, diffs, executed>>

SqlSettled == \A c \in 1..Len(calls) : calls[c].state \in {"fulfilled", "rejected"}

\* driver.execute(select, variables)
SqlExecute ==
    /\ select # <<>>
    /\ SqlSettled
    /\ Len(calls) < MaxCalls
    /\ \E variables \in VariableMaps :
          calls' = Append(calls, [variables |-> variables, state |-> "compiling",
                                  error |-> "none"])
    /\ UNCHANGED <<select, statements, migrateVars, mqVars, pubsubVars, fsVars>>

\* the query is compiled: every variable is resolved or the call is rejected
SqlCompile ==
    /\ calls # <<>>
    /\ calls[Len(calls)].state = "compiling"
    /\ LET call == calls[Len(calls)]
       IN  IF Unresolved(select, call.variables) # {}
           THEN /\ calls' = [calls EXCEPT ![Len(calls)].state = "rejected",
                                          ![Len(calls)].error = "unresolved-variable"]
                /\ UNCHANGED statements
           ELSE /\ calls' = [calls EXCEPT ![Len(calls)].state = "running"]
                /\ statements' = Append(statements,
                                        [call |-> Len(calls),
                                         statement |-> Compile(select, call.variables)])
    /\ UNCHANGED <<select, migrateVars, mqVars, pubsubVars, fsVars>>

\* the backend ran the statement
SqlBackend ==
    /\ calls # <<>>
    /\ calls[Len(calls)].state = "running"
    /\ IF statements[Len(statements)].statement.table \in Tables
       THEN calls' = [calls EXCEPT ![Len(calls)].state = "fulfilled"]
       ELSE calls' = [calls EXCEPT ![Len(calls)].state = "rejected",
                                   ![Len(calls)].error = "backend"]
    /\ UNCHANGED <<select, statements, migrateVars, mqVars, pubsubVars, fsVars>>

\* no migration is under way
MigrationIdle ==
    /\ locales = <<>>
    /\ schemas = <<>>
    /\ database = <<>>
    /\ tty = FALSE
    /\ pc = "idle"
    /\ i = 1
    /\ diffs = <<>>
    /\ sorted = <<>>
    /\ createCollections = <<>>
    /\ alterCollections = <<>>
    /\ muteNewColumn = <<>>
    /\ prompts = <<>>
    /\ answers = <<>>
    /\ executed = <<>>
    /\ results = <<>>

InitSQL ==
    /\ MigrationIdle
    /\ select \in Selects
    /\ calls = <<>>
    /\ statements = <<>>
    /\ MqIdle
    /\ PubSubIdle
    /\ FsIdle

NextSQL ==
    \/ SqlExecute
    \/ SqlCompile
    \/ SqlBackend

SpecSQL == InitSQL /\ [][NextSQL]_vars

StatementsOf(c) == SelectSeq(statements, LAMBDA statement : statement.call = c)

\* the variables the predicate of the Select names and call c gives no value for
Absent(c) ==
    {name \in VariableNames :
        /\ \E x \in 1..Len(select.where) : select.where[x].value = var(name)
        /\ name \notin calls[c].variables.names}

\* C23: a call of execute on a Select that references a variable the call
\* does not supply is rejected and no statement of that call ever reaches the
\* backend; a call on the same Select that supplies every referenced variable
\* (the table existing) is fulfilled, by exactly one statement.
C23_UnresolvedVariable ==
    \A c \in 1..Len(calls) :
        /\ Absent(c) # {} =>
              /\ StatementsOf(c) = <<>>
              /\ calls[c].state \in {"compiling", "rejected"}
              /\ calls[c].state = "rejected" => calls[c].error = "unresolved-variable"
        /\ (Absent(c) = {} /\ select.from \in Tables) =>
              /\ calls[c].state \in {"compiling", "running", "fulfilled"}
              /\ calls[c].state = "fulfilled" => Len(StatementsOf(c)) = 1

\* the scenario of the test: the first call without variables was rejected
\* with nothing sent, the second call with { title } was fulfilled
C23_Witness ==
    /\ select = [kind |-> "select", from |-> Bar_Foo, where |-> <<eq(title, var(title))>>]
    /\ Len(calls) = 2
    /\ calls[1].variables = NoVariables
    /\ calls[1].state = "rejected"
    /\ calls[2].variables.names = {title}
    /\ calls[2].state = "fulfilled"
    /\ Len(statements) = 1
    /\ statements[1].call = 2
    /\ statements[1].statement.params[1].value = "Hello world"

(***************************************************************************)
(* mq: AMQPQueue (tasks and RPC) and the reply consumer of AMQPDriver      *)
(***************************************************************************)
MaxSends == 2
MaxConsumes == 2

\* the AMQPQueue objects createQueue returned for one queue name: each call
\* of AMQPQueue.create opens a channel of its own
AMQPQueues == {"queueA", "queueB"}

Max(S) == CHOOSE x \in S : \A y \in S : x >= y

\* String.prototype.substr(start, length): a negative start counts from the
\* end, the length is clamped to 0..(size - start)
substr(s, start, length) ==
    LET size == Len(s)
        from == IF start < 0 THEN Max({size + start, 0}) ELSE Min({start, size})
        count == Min({Max({length, 0}), size - from})
    IN  [k \in 1..count |-> s[from + k]]

\* substr(start): the length defaults to the rest of the string
substrFrom(s, start) == substr(s, start, Len(s))

Digits == <<"0", "1", "2", "3", "4", "5", "6", "7", "8", "9">>
DigitValue(c) == (CHOOSE n \in 1..10 : Digits[n] = c) - 1

\* parseInt of a string of characters (a sign is never handed to it here)
NaN == -1
RECURSIVE parseDigits(_, _)
parseDigits(s, value) ==
    IF s = <<>> \/ Head(s) \notin Digit THEN value
    ELSE parseDigits(Tail(s), value * 10 + DigitValue(Head(s)))
parseInt(s) == IF s = <<>> \/ Head(s) \notin Digit THEN NaN ELSE parseDigits(s, 0)

\* uuid(): the n-th identifier drawn
uuid(n) == <<"4", "f", "-", "a", Digits[n + 1]>>

\* what a consume listener does with a message: it returns a Buffer, returns
\* nothing, or throws (or returns a promise that settles likewise)
Listeners == {"result", "void", "throws"}
ListenerResult == "Hello World"
ListenerError == "Fake error"

NoRpc == [rpcID |-> <<>>, state |-> "none", value |-> "", timer |-> "none", once |-> FALSE]

\* channel.sendToQueue / consume / cancel / ack put a frame on the object's channel
Framed(o, frame) == [wire EXCEPT ![o] = Append(@, frame)]

\* send(payload)
send ==
    /\ Len(sent) < MaxSends
    /\ \E o \in DOMAIN wire :
          /\ sent' = Append(sent, [queue |-> o, replyTo |-> "", correlationId |-> <<>>])
          /\ wire' = Framed(o, [frame |-> "publish", task |-> Len(sent) + 1])
    /\ rpcs' = Append(rpcs, NoRpc)
    /\ UNCHANGED <<ready, registered, unacked, consumers, invoked, replies>>
    /\ UNCHANGED <<migrateVars, sqlVars, pubsubVars, fsVars>>

\* sendRPC(payload, timeout)
sendRPC ==
    /\ Len(sent) < MaxSends
    /\ LET rpcID == uuid(Len(sent) + 1)
       IN  /\ rpcs' = Append(rpcs, [rpcID |-> rpcID, state |-> "pending", value |-> "",
                                    timer |-> "armed", once |-> TRUE])
           /\ \E o \in DOMAIN wire :
                 /\ sent' = Append(sent, [queue |-> o, replyTo |-> "replyToQueue",
                                          correlationId |-> rpcID])
                 /\ wire' = Framed(o, [frame |-> "publish", task |-> Len(sent) + 1])
    /\ UNCHANGED <<ready, registered, unacked, consumers, invoked, replies>>
    /\ UNCHANGED <<migrateVars, sqlVars, pubsubVars, fsVars>>

\* the timer of sendRPC fires
RpcTimeout ==
    /\ \E r \in 1..Len(rpcs) :
          /\ rpcs[r].timer = "armed"
          /\ rpcs' = [rpcs EXCEPT ![r].timer = "fired",
                                  ![r].state = IF @ = "pending" THEN "rejected" ELSE @,
                                  ![r].value = IF rpcs[r].state = "pending"
                                               THEN "RPC timeout (2000ms)." ELSE @]
    /\ UNCHANGED <<wire, ready, registered, unacked, consumers, sent, invoked, replies>>
    /\ UNCHANGED <<migrateVars, sqlVars, pubsubVars, fsVars>>

\* consume(listener)
consume ==
    /\ Len(consumers) < MaxConsumes
    /\ \E o \in DOMAIN wire :
          /\ consumers' = Append(consumers, [queue |-> o,
                                             disposed |-> FALSE,
                                             consumedAfter |-> Len(sent),
                                             disposedAfter |-> 0])
          /\ wire' = Framed(o, [frame |-> "consume", tag |-> Len(consumers) + 1])
    /\ UNCHANGED <<ready, registered, unacked, sent, invoked, replies, rpcs>>
    /\ UNCHANGED <<migrateVars, sqlVars, pubsubVars, fsVars>>

\* dispose() of the Disposable consume returned
disposeConsumer ==
    /\ \E c \in 1..Len(consumers) :
          /\ ~consumers[c].disposed
          /\ consumers' = [consumers EXCEPT ![c].disposed = TRUE,
                                            ![c].disposedAfter = Len(sent)]
          /\ wire' = Framed(consumers[c].queue, [frame |-> "cancel", tag |-> c])
    /\ UNCHANGED <<ready, registered, unacked, sent, invoked, replies, rpcs>>
    /\ UNCHANGED <<migrateVars, sqlVars, pubsubVars, fsVars>>

\* the broker reads the next frame of one channel
BrokerReads ==
    /\ \E o \in DOMAIN wire :
          /\ wire[o] # <<>>
          /\ wire' = [wire EXCEPT ![o] = Tail(@)]
          /\ LET frame == Head(wire[o])
             IN  /\ ready' = IF frame.frame = "publish" THEN Append(ready, frame.task)
                             ELSE ready
                 /\ replies' = IF frame.frame = "reply"
                               THEN Append(replies, [correlationId |-> frame.correlationId,
                                                     content |-> frame.content])
                               ELSE replies
                 /\ registered' = IF frame.frame = "consume" THEN registered \cup {frame.tag}
                                  ELSE IF frame.frame = "cancel" THEN registered \ {frame.tag}
                                  ELSE registered
                 /\ unacked' = IF frame.frame = "ack"
                               THEN unacked \ {[task |-> frame.task, tag |-> frame.tag]}
                               ELSE unacked
    /\ UNCHANGED <<consumers, sent, invoked, rpcs>>
    /\ UNCHANGED <<migrateVars, sqlVars, pubsubVars, fsVars>>

\* the frames the consume callback sends once the listener's promise settled
Settlement(t, c, listener) ==
    LET ack == [frame |-> "ack", task |-> t, tag |-> c]
        reply(status, buffer) ==
            [frame |-> "reply", correlationId |-> sent[t].correlationId \o status,
             content |-> buffer]
    IN  IF listener = "throws"
        THEN IF sent[t].replyTo # ""
             THEN <<reply(<<"-", "5", "0", "0">>, ListenerError)>>
             ELSE <<>>
        ELSE <<ack>> \o
             IF sent[t].replyTo # ""
             THEN <<reply(<<"-", "2", "0", "0">>,
                          IF listener = "result" THEN ListenerResult ELSE "")>>
             ELSE <<>>

\* prefetch(1): the broker holds at most one unacknowledged delivery per consumer
Prefetched(c) == \E delivery \in unacked : delivery.tag = c

\* the broker delivers the oldest task to a consumer, whose callback calls the listener
Deliver ==
    /\ ready # <<>>
    /\ \E c \in registered, listener \in Listeners :
          /\ ~Prefetched(c)
          /\ LET t == Head(ready)
                 frames == Settlement(t, c, listener)
             IN  /\ unacked' = unacked \cup {[task |-> t, tag |-> c]}
                 /\ invoked' = Append(invoked,
                                      [task |-> t, tag |-> c,
                                       settled |-> IF listener = "throws" THEN "rejected"
                                                   ELSE "fulfilled",
                                       reply |-> IF sent[t].replyTo # ""
                                                 THEN frames[Len(frames)].content
                                                 ELSE ""])
                 /\ wire' = [wire EXCEPT ![consumers[c].queue] = @ \o frames]
    /\ ready' = Tail(ready)
    /\ UNCHANGED <<registered, consumers, sent, replies, rpcs>>
    /\ UNCHANGED <<migrateVars, sqlVars, pubsubVars, fsVars>>

\* emitter.emit(event, status, msg): the once listeners of the event run
emit(event, status, msg) ==
    [r \in 1..Len(rpcs) |->
        IF rpcs[r].once /\ rpcs[r].rpcID = event
        THEN [rpcID |-> rpcs[r].rpcID,
              state |-> IF rpcs[r].state # "pending" THEN rpcs[r].state
                        ELSE IF status = 200 THEN "fulfilled" ELSE "rejected",
              value |-> IF rpcs[r].state # "pending" THEN rpcs[r].value ELSE msg.content,
              timer |-> IF rpcs[r].timer = "armed" THEN "cleared" ELSE rpcs[r].timer,
              once |-> FALSE]
        ELSE rpcs[r]]

\* the consumer of the reply queue
ReplyConsume ==
    /\ replies # <<>>
    /\ LET msg == Head(replies)
       IN  IF msg.correlationId # <<>>
           THEN LET correlationId == substr(msg.correlationId, 0, -4)
                    status == parseInt(substrFrom(msg.correlationId, -3))
                IN  rpcs' = emit(correlationId, status, msg)
           ELSE UNCHANGED rpcs
    /\ replies' = Tail(replies)
    /\ UNCHANGED <<wire, ready, registered, unacked, consumers, sent, invoked>>
    /\ UNCHANGED <<migrateVars, sqlVars, pubsubVars, fsVars>>

InitQueue ==
    /\ MigrationIdle
    /\ SqlIdle
    /\ wire = [o \in AMQPQueues |-> <<>>]
    /\ ready = <<>>
    /\ registered = {}
    /\ unacked = {}
    /\ consumers = <<>>
    /\ sent = <<>>
    /\ invoked = <<>>
    /\ replies = <<>>
    /\ rpcs = <<>>
    /\ PubSubIdle
    /\ FsIdle

NextQueue ==
    \/ send
    \/ consume
    \/ disposeConsumer
    \/ BrokerReads
    \/ Deliver

SpecQueue == InitQueue /\ [][NextQueue]_vars

\* the caller and the worker of an RPC hold an AMQPQueue each
InitRPC ==
    /\ MigrationIdle
    /\ SqlIdle
    /\ wire = [o \in AMQPQueues |-> <<>>]
    /\ ready = <<>>
    /\ registered = {}
    /\ unacked = {}
    /\ consumers = <<>>
    /\ sent = <<>>
    /\ invoked = <<>>
    /\ replies = <<>>
    /\ rpcs = <<>>
    /\ PubSubIdle
    /\ FsIdle

NextRPC ==
    \/ sendRPC
    \/ RpcTimeout
    \/ consume
    \/ BrokerReads
    \/ Deliver
    \/ ReplyConsume

SpecRPC == InitRPC /\ [][NextRPC]_vars

(***************************************************************************)
(* RPC over a queue                                                        *)
(***************************************************************************)
\* the reply to RPC task t has not reached the reply consumer yet
ReplyInFlight(t) ==
    LET ours(correlationId) ==
            /\ Len(correlationId) = Len(sent[t].correlationId) + 4
            /\ SubSeq(correlationId, 1, Len(sent[t].correlationId)) = sent[t].correlationId
    IN  \/ \E o \in DOMAIN wire : \E k \in 1..Len(wire[o]) :
              wire[o][k].frame = "reply" /\ ours(wire[o][k].correlationId)
        \/ \E k \in 1..Len(replies) : ours(replies[k].correlationId)

\* the reply of call k of a listener was consumed while the caller's timer had not fired
AnsweredInTime(k) ==
    /\ sent[invoked[k].task].replyTo # ""
    /\ ~ReplyInFlight(invoked[k].task)
    /\ rpcs[invoked[k].task].timer # "fired"

\* C24: RPC success: when the listener of a registered consumer returned a
\* result for the request and the reply came back before the timeout, the
\* promise of sendRPC is fulfilled with that result (it does not time out).
C24_RpcSuccess ==
    \A k \in 1..Len(invoked) :
        (invoked[k].settled = "fulfilled" /\ AnsweredInTime(k)) =>
            /\ rpcs[invoked[k].task].state = "fulfilled"
            /\ rpcs[invoked[k].task].value = invoked[k].reply
            /\ rpcs[invoked[k].task].timer = "cleared"

\* C25: RPC failure: when the listener threw or rejected while handling the
\* request, the promise of sendRPC is rejected with an error whose message is
\* the message of the listener's error.
C25_RpcFailure ==
    \A k \in 1..Len(invoked) :
        (invoked[k].settled = "rejected" /\ AnsweredInTime(k)) =>
            /\ rpcs[invoked[k].task].state = "rejected"
            /\ rpcs[invoked[k].task].value = ListenerError

(***************************************************************************)
(* Tasks of a queue                                                        *)
(***************************************************************************)
\* how many times a listener was called with task t
Deliveries(t) == Len(SelectSeq(invoked, LAMBDA call : call.task = t))

\* nothing is on its way: the broker read every frame and can deliver nothing
Quiet ==
    /\ \A o \in DOMAIN wire : wire[o] = <<>>
    /\ ready # <<>> => \A c \in registered : Prefetched(c)

\* a consume call that preceded the sending of task t and was never disposed
Consuming(c, t) == consumers[c].consumedAfter < t /\ ~consumers[c].disposed

\* C28: a task sent to a queue that has a registered consumer is delivered to
\* a consumer listener exactly once: never twice, and once nothing is on its
\* way any more, not zero times.
C28_ExactlyOnce ==
    \A t \in 1..Len(sent) :
        /\ Deliveries(t) <= 1
        /\ (Quiet /\ \E c \in 1..Len(consumers) : Consuming(c, t)) => Deliveries(t) = 1

\* C29: after the Disposable returned by consume was disposed, its listener
\* is called for no task sent afterwards, however the cancel and the later
\* sends interleave.
C29_NoDeliveryAfterDispose ==
    \A k \in 1..Len(invoked) :
        consumers[invoked[k].tag].disposed =>
            invoked[k].task <= consumers[invoked[k].tag].disposedAfter

\* task t was sent before any consume call
SentUnconsumed(t) == \A c \in 1..Len(consumers) : consumers[c].consumedAfter >= t

\* C30: a task sent while no consumer is registered is not lost: no listener
\* is called with it until a consumer registers, and it is then delivered
\* exactly once, to the first consumer that registers on the queue (stated
\* for whichever consumer the broker registered first: once nothing is on
\* its way any more and a consumer is still registered, it was delivered,
\* and to the only consumer when there is only one).
C30_PendingTask ==
    \A t \in 1..Len(sent) :
        SentUnconsumed(t) =>
            /\ Deliveries(t) <= 1
            /\ Deliveries(t) = 1 => consumers # <<>>
            /\ (Quiet /\ \E c \in 1..Len(consumers) : ~consumers[c].disposed) =>
                  Deliveries(t) = 1

(***************************************************************************)
(* mq: AMQPChannel (publish / subscribe)                                   *)
(***************************************************************************)
MaxPublishes == 1
MaxSubscribes == 2

\* the AMQPChannel objects createChannel returned and the exchange name of
\* each (the topic is the default '' everywhere): every call of
\* AMQPChannel.create opens a channel and an exclusive queue of its own
AMQPChannels == [chanA |-> "foo2", chanB |-> "foo2", chanC |-> "foo3"]

\* publish(payload)
publish ==
    /\ Len(published) < MaxPublishes
    /\ \E o \in DOMAIN chanWire :
          /\ published' = Append(published, [channel |-> o])
          /\ chanWire' = [chanWire EXCEPT
                            ![o] = Append(@, [frame |-> "publish",
                                              message |-> Len(published) + 1])]
    /\ UNCHANGED <<bound, inbox, listeners, received>>
    /\ UNCHANGED <<migrateVars, sqlVars, mqVars, fsVars>>

\* subscribe(listener): this.emitter.on('consume', listener)
subscribe ==
    /\ Len(listeners) < MaxSubscribes
    /\ \E o \in DOMAIN chanWire :
          listeners' = Append(listeners, [channel |-> o, disposed |-> FALSE,
                                          subscribedAfter |-> Len(published),
                                          disposedAfter |-> 0])
    /\ UNCHANGED <<chanWire, bound, inbox, published, received>>
    /\ UNCHANGED <<migrateVars, sqlVars, mqVars, fsVars>>

\* dispose() of the Disposable subscribe returned
disposeSubscriber ==
    /\ \E l \in 1..Len(listeners) :
          /\ ~listeners[l].disposed
          /\ listeners' = [listeners EXCEPT ![l].disposed = TRUE,
                                            ![l].disposedAfter = Len(published)]
    /\ UNCHANGED <<chanWire, bound, inbox, published, received>>
    /\ UNCHANGED <<migrateVars, sqlVars, mqVars, fsVars>>

\* the broker reads the next frame of one channel: the binding of its queue
\* (with the consumer the constructor opens on it), or a message it routes to
\* every queue bound to the exchange
ChannelBrokerReads ==
    /\ \E o \in DOMAIN chanWire :
          /\ chanWire[o] # <<>>
          /\ chanWire' = [chanWire EXCEPT ![o] = Tail(@)]
          /\ LET frame == Head(chanWire[o])
             IN  IF frame.frame = "bind"
                 THEN /\ bound' = bound \cup {o}
                      /\ UNCHANGED inbox
                 ELSE /\ inbox' = [b \in DOMAIN inbox |->
                                     IF b \in bound /\ AMQPChannels[b] = AMQPChannels[o]
                                     THEN Append(inbox[b], frame.message)
                                     ELSE inbox[b]]
                      /\ UNCHANGED bound
    /\ UNCHANGED <<listeners, published, received>>
    /\ UNCHANGED <<migrateVars, sqlVars, mqVars, fsVars>>

\* the listeners the emitter of channel o holds for 'consume', in subscription order
Subscribed_ever(o) ==
    SelectSeq([l \in 1..Len(listeners) |-> l], LAMBDA l : listeners[l].channel = o)
Subscribed(o) ==
    SelectSeq([l \in 1..Len(listeners) |-> l],
              LAMBDA l : listeners[l].channel = o /\ ~listeners[l].disposed)

\* the consumer of the channel's queue: this.emitter.emit('consume', msg)
ChannelConsume ==
    /\ \E o \in DOMAIN inbox :
          /\ inbox[o] # <<>>
          /\ inbox' = [inbox EXCEPT ![o] = Tail(@)]
          /\ received' = received \o
                [k \in 1..Len(Subscribed(o)) |->
                    [message |-> Head(inbox[o]), listener |-> Subscribed(o)[k]]]
    /\ UNCHANGED <<chanWire, bound, listeners, published>>
    /\ UNCHANGED <<migrateVars, sqlVars, mqVars, fsVars>>

\* AMQPChannel.create resolved: the bindQueue frame is sent, nothing waited for
InitChannel ==
    /\ MigrationIdle
    /\ SqlIdle
    /\ MqIdle
    /\ chanWire = [o \in DOMAIN AMQPChannels |-> <<[frame |-> "bind"]>>]
    /\ bound = {}
    /\ inbox = [o \in DOMAIN AMQPChannels |-> <<>>]
    /\ listeners = <<>>
    /\ published = <<>>
    /\ received = <<>>
    /\ FsIdle

NextChannel ==
    \/ publish
    \/ subscribe
    \/ disposeSubscriber
    \/ ChannelBrokerReads
    \/ ChannelConsume

SpecChannel == InitChannel /\ [][NextChannel]_vars

(***************************************************************************)
(* Publish / subscribe                                                     *)
(***************************************************************************)
\* how many times listener l was called with message m
Receipts(m, l) ==
    Len(SelectSeq(received, LAMBDA call : call.message = m /\ call.listener = l))

\* listener l subscribed to the channel (exchange name) message m was published on
SameChannel(m, l) == AMQPChannels[listeners[l].channel] = AMQPChannels[published[m].channel]

\* the broker read every frame and every routed message was consumed
ChannelQuiet ==
    /\ \A o \in DOMAIN chanWire : chanWire[o] = <<>>
    /\ \A o \in DOMAIN inbox : inbox[o] = <<>>

\* C26: fan-out: every message published on a channel is delivered exactly
\* once to each listener subscribed to that channel at publish time (stated
\* for the listeners that also stay subscribed: never twice, and once as soon as
\* nothing is on its way any more), and never to a listener of another channel.
C26_FanOut ==
    \A m \in 1..Len(published) : \A l \in 1..Len(listeners) :
        /\ Receipts(m, l) <= 1
        /\ ~SameChannel(m, l) => Receipts(m, l) = 0
        /\ ( /\ SameChannel(m, l)
             /\ listeners[l].subscribedAfter < m
             /\ ~listeners[l].disposed
             /\ ChannelQuiet ) => Receipts(m, l) = 1

\* C27: after the Disposable returned by subscribe was disposed, its listener
\* is called for no message published afterwards.
C27_NoCallAfterDispose ==
    \A k \in 1..Len(received) :
        listeners[received[k].listener].disposed =>
            received[k].message <= listeners[received[k].listener].disposedAfter

\* a message published after the dispose of a listener was emitted on the
\* listener's own AMQPChannel (another listener of it was called with it)
\* and the disposed listener was not called
C27_Witness ==
    \E l \in 1..Len(listeners) : \E k \in 1..Len(received) :
        /\ listeners[l].disposed
        /\ received[k].message > listeners[l].disposedAfter
        /\ received[k].listener # l
        /\ listeners[received[k].listener].channel = listeners[l].channel
        /\ Receipts(received[k].message, l) = 0

(***************************************************************************)
(* Migration without a terminal                                            *)
(***************************************************************************)
\* the diff list holds a drop_column or an add_column with copy candidates
NeedsTerminal == \E k \in 1..Len(sorted) : NeedsDecision(sorted[k])

\* C31: called without stdin/stdout, executeSchemaMigration never prompts;
\* when the diff list holds no drop_column and no add_column with a non-empty
\* copyColumn list it does not fail before dispatching its queries, and when
\* it holds either it fails with the 'requires your intervention' error and
\* hands no query to the database.
C31_NoTerminal ==
    (Migrating /\ ~tty) =>
        /\ prompts = <<>>
        /\ ~NeedsTerminal => pc \in {"mig_loop", "mig_dispatched", "mig_rejected", "mig_done"}
        /\ NeedsTerminal =>
              /\ pc \in {"mig_loop", "mig_needs_tty"}
              /\ MigrationQueries = <<>>
              /\ results = <<>>

\* a run without terminal failed on a diff that needs a decision after it
\* had batched queries of earlier diffs, none of which was dispatched
C31_Witness ==
    /\ ~tty
    /\ pc = "mig_needs_tty"
    /\ NeedsDecision(sorted[i])
    /\ \/ createCollections # <<>>
       \/ \E k \in 1..Len(alterCollections) : alterCollections[k].changes # <<>>
    /\ MigrationQueries = <<>>

(***************************************************************************)
(* The queries of getSchemaDiff                                            *)
(***************************************************************************)
Diffing == pc \in {"diff_loop", "diff_exists", "diff_describe", "diff_thrown", "diff_returned"}

\* the schemas whose iteration has begun
Begun == IF pc \in {"diff_loop", "diff_returned"} THEN i - 1 ELSE i

ExistsQueries == SelectSeq(executed, LAMBDA query : query.kind = "collectionExists")

\* C32: getSchemaDiff leaves the database unchanged: it issues only
\* collectionExists and describeCollection queries, one collectionExists per
\* schema in schema order, and at most one describeCollection per schema,
\* each right after that schema's collectionExists.
C32_ReadOnly ==
    Diffing =>
        /\ \A p \in 1..Len(executed) :
              executed[p].kind \in {"collectionExists", "describeCollection"}
        /\ Len(ExistsQueries) = Begun
        /\ \A k \in 1..Len(ExistsQueries) :
              ExistsQueries[k] = collectionExists(schemas[k].handle)
        /\ pc = "diff_returned" => Len(ExistsQueries) = Len(schemas)
        /\ \A p \in 1..Len(executed) :
              executed[p].kind = "describeCollection" =>
                  /\ p > 1
                  /\ executed[p - 1] = collectionExists(executed[p].collection)

\* getSchemaDiff returned after asking for two schemas, describing the one
\* that exists and not the one that is missing
C32_Witness ==
    /\ pc = "diff_returned"
    /\ Len(schemas) = 2
    /\ Len(ExistsQueries) = 2
    /\ Len(executed) = 3

(***************************************************************************)
(* Settlement of sendRPC                                                   *)
(***************************************************************************)
RpcTimeoutMessage == "RPC timeout (2000ms)."

\* a listener was called with task t and its reply reached the reply consumer
ReplyConsumed(t) ==
    /\ \E k \in 1..Len(invoked) : invoked[k].task = t
    /\ ~ReplyInFlight(t)

\* C33: sendRPC settles exactly once: when the timeout elapses with no reply
\* received it rejects with the RPC timeout error, a reply arriving after the
\* timeout does not change the outcome, and a reply received before the
\* timeout prevents the timeout rejection.
C33_SettlesOnce ==
    \A t \in 1..Len(rpcs) :
        rpcs[t].state # "none" =>
            /\ rpcs[t].state = "pending" <=> rpcs[t].timer = "armed"
            /\ rpcs[t].timer = "fired" =>
                  rpcs[t].state = "rejected" /\ rpcs[t].value = RpcTimeoutMessage
            /\ rpcs[t].timer = "cleared" =>
                  rpcs[t].state # "pending" /\ rpcs[t].value # RpcTimeoutMessage
            /\ (ReplyConsumed(t) /\ rpcs[t].timer # "fired") => rpcs[t].timer = "cleared"

(***************************************************************************)
(* Acknowledgement of delivered tasks                                      *)
(***************************************************************************)
\* channel.ack(msg) of a delivery is on its way to the broker
AckInFlight(delivery) ==
    \E o \in DOMAIN wire : \E k \in 1..Len(wire[o]) :
        /\ wire[o][k].frame = "ack"
        /\ wire[o][k].task = delivery.task
        /\ wire[o][k].tag = delivery.tag

\* C34: every task delivered to a consumer is acknowledged to the broker once
\* its listener has finished, whether it returned, resolved, threw or
\* rejected, so that a consumer on the prefetch(1) channel still receives the
\* tasks sent after one whose listener failed.
C34_Acknowledged ==
    /\ \A k \in 1..Len(invoked) :
          [task |-> invoked[k].task, tag |-> invoked[k].tag] \in unacked =>
              AckInFlight(invoked[k])
    /\ \A k \in 1..Len(invoked) :
          (/\ invoked[k].settled = "rejected"
           /\ invoked[k].tag \in registered
           /\ Quiet) => ready = <<>>

(***************************************************************************)
(* File systems: the FileSystem interface over a map from path to entry    *)
(***************************************************************************)
MaxFsCalls == 2

\* the file systems handed to the constructor
fss == {1, 2}
\* "." is the directory that holds the entries a and b
Paths == {"a", "b"}
Root == "."
InitialDisk == [path \in Paths |-> IF path = "a" THEN "file" ELSE "none"]

Stats(entry) == [isFile |-> entry = "file", isDirectory |-> entry = "dir"]

Reads == {"stat", "exists", "readDirectory"}
Writes == {"unlink", "copy", "rename", "createDirectory"}

\* the calls with their arguments
Invocations(ops) ==
    {[op |-> op, path |-> path, other |-> "", flag |-> FALSE] :
        op \in ops \cap {"stat", "exists", "unlink", "createDirectory", "createWriteStream"},
        path \in Paths}
    \cup {[op |-> op, path |-> path, other |-> other, flag |-> FALSE] :
            op \in ops \cap {"copy", "rename"},
            path \in Paths, other \in Paths}
    \cup {[op |-> "readDirectory", path |-> path, other |-> "", flag |-> flag] :
            path \in IF "readDirectory" \in ops THEN {Root} \cup Paths ELSE {},
            flag \in BOOLEAN}

\* the names in the directory, in alphabetical order
Names(disk) ==
    (IF disk["a"] # "none" THEN <<"a">> ELSE <<>>) \o
    (IF disk["b"] # "none" THEN <<"b">> ELSE <<>>)

Entries(disk, flag) ==
    IF flag
    THEN [k \in 1..Len(Names(disk)) |-> <<Names(disk)[k], Stats(disk[Names(disk)[k]])>>]
    ELSE Names(disk)

Answered(value, disk) == [ok |-> TRUE, value |-> value, disk |-> disk]
Failed(disk) == [ok |-> FALSE, value |-> "Error", disk |-> disk]

\* what one file system outcomes to a call and the entries it holds afterwards
Underlying(disk, op, path, other, flag) ==
    CASE op = "stat" ->
            IF disk[path] = "none" THEN Failed(disk)
            ELSE Answered(Stats(disk[path]), disk)
      [] op = "exists" -> Answered(disk[path] # "none", disk)
      [] op = "unlink" ->
            IF disk[path] = "none" THEN Failed(disk)
            ELSE Answered("", [disk EXCEPT ![path] = "none"])
      [] op = "copy" ->
            IF disk[path] = "none" THEN Failed(disk)
            ELSE Answered("", [disk EXCEPT ![other] = disk[path]])
      [] op = "rename" ->
            IF disk[path] = "none" THEN Failed(disk)
            ELSE Answered("", [[disk EXCEPT ![path] = "none"] EXCEPT ![other] = disk[path]])
      [] op = "readDirectory" ->
            IF path = Root THEN Answered(Entries(disk, flag), disk)
            ELSE IF disk[path] = "dir" THEN Answered(<<>>, disk)
            ELSE Failed(disk)
      [] op = "createDirectory" ->
            IF disk[path] # "none" THEN Failed(disk)
            ELSE Answered("", [disk EXCEPT ![path] = "dir"])
      [] op = "createWriteStream" ->
            IF disk[path] = "dir" THEN Failed(disk)
            ELSE Answered("", [disk EXCEPT ![path] = "file"])

cacheVars == <<cache, now, ttl, defers, cacheCalls>>

\* a call starts with `await this.pool.acquires()`
Awaiting(invocation) ==
    [op |-> invocation.op, path |-> invocation.path, other |-> invocation.other,
     flag |-> invocation.flag, state |-> "waiting", fs |-> 0, released |-> 0,
     underlying |-> ""]

\* Pool.acquires(): a waiting call is handed a file system the pool holds
acquires ==
    /\ \E k \in 1..Len(fsCalls), fs \in pool :
          /\ fsCalls[k].state = "waiting"
          /\ pool' = pool \ {fs}
          /\ fsCalls' = [fsCalls EXCEPT ![k].state = "acquired", ![k].fs = fs]
    /\ UNCHANGED <<decorator, disks, cacheVars>>
    /\ UNCHANGED <<migrateVars, sqlVars, mqVars, pubsubVars>>

\* Pool.release(fs)
release(fs) == pool \cup {fs}

\* the acquired file system settles the call of k
Answer(k) ==
    Underlying(disks[fsCalls[k].fs], fsCalls[k].op, fsCalls[k].path,
               fsCalls[k].other, fsCalls[k].flag)

SettledCall(k, answer, released) ==
    [fsCalls EXCEPT ![k].state = IF answer.ok THEN "resolved" ELSE "rejected",
                    ![k].released = @ + (IF released THEN 1 ELSE 0),
                    ![k].underlying = fsCalls[k].op]

\* FileSystemPool: stat, exists, unlink, copy, rename, readDirectory, createDirectory
PoolCall ==
    /\ decorator = "pool"
    /\ Len(fsCalls) < MaxFsCalls
    /\ \E invocation \in Invocations(Reads \cup Writes) :
          fsCalls' = Append(fsCalls, Awaiting(invocation))
    /\ UNCHANGED <<decorator, disks, pool, cacheVars>>
    /\ UNCHANGED <<migrateVars, sqlVars, mqVars, pubsubVars>>

\* the try block released only what succeeded
PoolSettle_leak ==
    /\ decorator = "pool"
    /\ \E k \in 1..Len(fsCalls) :
          /\ fsCalls[k].state = "acquired"
          /\ disks' = [disks EXCEPT ![fsCalls[k].fs] = Answer(k).disk]
          /\ pool' = IF Answer(k).ok THEN release(fsCalls[k].fs) ELSE pool
          /\ fsCalls' = SettledCall(k, Answer(k), Answer(k).ok)
    /\ UNCHANGED <<decorator, cacheVars>>
    /\ UNCHANGED <<migrateVars, sqlVars, mqVars, pubsubVars>>

\* FileSystemPool: the try block releases after the await, the catch block
\* releases and rethrows
PoolSettle ==
    /\ decorator = "pool"
    /\ \E k \in 1..Len(fsCalls) :
          /\ fsCalls[k].state = "acquired"
          /\ disks' = [disks EXCEPT ![fsCalls[k].fs] = Answer(k).disk]
          /\ pool' = release(fsCalls[k].fs)
          /\ fsCalls' = SettledCall(k, Answer(k), TRUE)
    /\ UNCHANGED <<decorator, cacheVars>>
    /\ UNCHANGED <<migrateVars, sqlVars, mqVars, pubsubVars>>

\* FileSystemMirror: stat, exists, readDirectory
MirrorRead ==
    /\ decorator = "mirror"
    /\ Len(fsCalls) < MaxFsCalls
    /\ \E invocation \in Invocations(Reads) :
          fsCalls' = Append(fsCalls, Awaiting(invocation))
    /\ UNCHANGED <<decorator, disks, pool, cacheVars>>
    /\ UNCHANGED <<migrateVars, sqlVars, mqVars, pubsubVars>>

\* FileSystemMirror: `this.pool.release(fs)` follows the await, outside any try
MirrorReadSettle ==
    /\ decorator = "mirror"
    /\ \E k \in 1..Len(fsCalls) :
          /\ fsCalls[k].state = "acquired"
          /\ disks' = [disks EXCEPT ![fsCalls[k].fs] = Answer(k).disk]
          /\ pool' = IF Answer(k).ok THEN release(fsCalls[k].fs) ELSE pool
          /\ fsCalls' = SettledCall(k, Answer(k), Answer(k).ok)
    /\ UNCHANGED <<decorator, cacheVars>>
    /\ UNCHANGED <<migrateVars, sqlVars, mqVars, pubsubVars>>

\* the method of the mirrored file systems that a FileSystemMirror method maps over
Mapped(op) == IF op = "rename" THEN "copy" ELSE op

\* FileSystemMirror: unlink, copy, rename, createDirectory over Promise.all(this.fss.map(...))
MirrorWrite ==
    /\ decorator = "mirror"
    /\ Len(fsCalls) < MaxFsCalls
    /\ \E invocation \in Invocations(Writes) :
          LET outcomes == [fs \in fss |->
                             Underlying(disks[fs], Mapped(invocation.op), invocation.path,
                                        invocation.other, invocation.flag)]
          IN  /\ disks' = [fs \in fss |-> outcomes[fs].disk]
              /\ fsCalls' = Append(fsCalls,
                    [Awaiting(invocation) EXCEPT
                        !.state = IF \A fs \in fss : outcomes[fs].ok
                                  THEN "resolved" ELSE "rejected",
                        !.underlying = Mapped(invocation.op)])
    /\ UNCHANGED <<decorator, pool, cacheVars>>
    /\ UNCHANGED <<migrateVars, sqlVars, mqVars, pubsubVars>>

InitFS ==
    /\ MigrationIdle
    /\ SqlIdle
    /\ MqIdle
    /\ PubSubIdle
    /\ decorator \in {"pool", "mirror"}
    /\ disks = [fs \in fss |-> InitialDisk]
    /\ pool = fss
    /\ fsCalls = <<>>
    /\ cache = <<>>
    /\ now = 0
    /\ ttl = 0
    /\ defers = <<>>
    /\ cacheCalls = <<>>

NextFS ==
    \/ PoolCall
    \/ acquires
    \/ PoolSettle
    \/ MirrorRead
    \/ MirrorReadSettle
    \/ MirrorWrite

SpecFS == InitFS /\ [][NextFS]_vars

\* the file systems that calls in progress hold
Held == {fsCalls[k].fs : k \in {c \in 1..Len(fsCalls) : fsCalls[c].state = "acquired"}}
Completed == \A k \in 1..Len(fsCalls) : fsCalls[k].state \in {"resolved", "rejected"}

\* C35: FileSystemPool conserves its resources: each call of stat, exists,
\* unlink, copy, rename, readDirectory or createDirectory acquires one file
\* system and releases it exactly once, on success and on failure alike; once
\* the interleaved calls have completed every file system is back in the pool.
C35_PoolConserved ==
    decorator = "pool" =>
        /\ pool \cap Held = {}
        /\ pool \cup Held = fss
        /\ \A k \in 1..Len(fsCalls) :
              /\ fsCalls[k].state = "waiting" => fsCalls[k].fs = 0 /\ fsCalls[k].released = 0
              /\ fsCalls[k].state = "acquired" => fsCalls[k].fs \in fss /\ fsCalls[k].released = 0
              /\ fsCalls[k].state \in {"resolved", "rejected"} =>
                    fsCalls[k].fs \in fss /\ fsCalls[k].released = 1
        /\ \A k, c \in 1..Len(fsCalls) :
              (k # c /\ fsCalls[k].state = "acquired" /\ fsCalls[c].state = "acquired") =>
                  fsCalls[k].fs # fsCalls[c].fs
        /\ Completed => pool = fss

C35_Witness ==
    /\ decorator = "pool"
    /\ Len(fsCalls) = MaxFsCalls
    /\ Completed
    /\ \E k \in 1..Len(fsCalls) : fsCalls[k].state = "rejected"
    /\ \E k \in 1..Len(fsCalls) : fsCalls[k].state = "resolved"
    /\ pool = fss

\* C36: FileSystemMirror returns the file system it acquired from its pool
\* for stat, exists and readDirectory once the call has completed, also when
\* the underlying call fails; no sequence of failing reads leaves the pool
\* without an available file system.
C36_MirrorReleases ==
    decorator = "mirror" =>
        /\ pool \cup Held = fss
        /\ \A k \in 1..Len(fsCalls) :
              (fsCalls[k].op \in Reads /\ fsCalls[k].state \in {"resolved", "rejected"}) =>
                  fsCalls[k].released = 1
        /\ Completed => pool # {}

\* the last unlink, copy, rename or createDirectory made on the mirror
LastWrite ==
    LET made == {k \in 1..Len(fsCalls) : fsCalls[k].op \in Writes}
    IN  IF made = {} THEN 0 ELSE CHOOSE k \in made : \A c \in made : c <= k

\* C37: every mutating operation of FileSystemMirror is applied to every
\* mirrored file system with the same arguments: unlink, copy and
\* createDirectory invoke the same operation on each and rename invokes rename
\* on each, so that after it resolves oldPath no longer exists on any mirror.
C37_MirrorWrites ==
    decorator = "mirror" =>
        /\ \A k \in 1..Len(fsCalls) :
              fsCalls[k].op \in Writes => fsCalls[k].underlying = fsCalls[k].op
        /\ (/\ LastWrite # 0
            /\ fsCalls[LastWrite].op = "rename"
            /\ fsCalls[LastWrite].state = "resolved"
            /\ fsCalls[LastWrite].path # fsCalls[LastWrite].other) =>
                \A fs \in fss : disks[fs][fsCalls[LastWrite].path] = "none"

(***************************************************************************)
(* FileSystemCache over one file system                                    *)
(***************************************************************************)
MaxCacheCalls == 3
MaxTime == 1
TTLs == {0, 1}

\* the calls made on the cache: on the entry a, on the directory that holds
\* it, and copies and renames of a to b
CacheInvocations ==
    {v \in Invocations(Reads \cup Writes \cup {"createWriteStream"}) :
        /\ v.op \in {"copy", "rename"} => v.other = "b"
        /\ v.op = "readDirectory" => v.path = Root
        /\ v.op # "readDirectory" => v.path = "a"}

\* `stat:${path}`, `exists:${path}`, `readdir:${path}`
hash(op, path) ==
    CASE op = "stat" -> "stat:" \o path
      [] op = "exists" -> "exists:" \o path
      [] op = "readDirectory" -> "readdir:" \o path

\* the entry of the hash has expired before now
Fresh_strict(key) == key \in DOMAIN cache /\ cache[key].expired > now

\* this.cache.has(hash) and expired >= now
Fresh(key) == key \in DOMAIN cache /\ cache[key].expired >= now

CacheCall(v, promise, computed) ==
    [op |-> v.op, path |-> v.path, other |-> v.other, flag |-> v.flag, at |-> now,
     expired |-> IF computed THEN now + ttl ELSE 0,
     promise |-> promise, computed |-> computed,
     direct |-> Underlying(disks[1], v.op, v.path, v.other, v.flag)]

\* stat, exists, readDirectory: cacheOrCompute(hash, () => this.fs.<method>(...))
cacheOrCompute ==
    /\ decorator = "cache"
    /\ Len(cacheCalls) < MaxCacheCalls
    /\ \E v \in CacheInvocations :
          /\ v.op \in Reads
          /\ LET key == hash(v.op, v.path)
                 answer == Underlying(disks[1], v.op, v.path, v.other, v.flag)
             IN  IF Fresh(key)
                 THEN /\ cacheCalls' = Append(cacheCalls, CacheCall(v, cache[key].defer, FALSE))
                      /\ UNCHANGED <<cache, defers>>
                 ELSE /\ defers' = Append(defers, [key |-> key, state |-> "pending",
                                                   flag |-> v.flag,
                                                   ok |-> answer.ok, value |-> answer.value])
                      /\ cache' = [h \in DOMAIN cache \cup {key} |->
                                      IF h = key
                                      THEN [expired |-> now + ttl, defer |-> Len(defers) + 1]
                                      ELSE cache[h]]
                      /\ cacheCalls' = Append(cacheCalls, CacheCall(v, Len(defers) + 1, TRUE))
    /\ UNCHANGED <<decorator, disks, pool, fsCalls, now, ttl>>
    /\ UNCHANGED <<migrateVars, sqlVars, mqVars, pubsubVars>>

\* compute().then(res => defer.resolve(res)).catch(err => defer.reject(err))
DeferSettles ==
    /\ \E d \in 1..Len(defers) :
          /\ defers[d].state = "pending"
          /\ defers' = [defers EXCEPT ![d].state = IF defers[d].ok THEN "resolved"
                                                    ELSE "rejected"]
    /\ UNCHANGED <<decorator, disks, pool, fsCalls, cache, now, ttl, cacheCalls>>
    /\ UNCHANGED <<migrateVars, sqlVars, mqVars, pubsubVars>>

\* unlink, copy, rename, createDirectory, createWriteStream: return this.fs.<method>(...)
CacheWrite ==
    /\ decorator = "cache"
    /\ Len(cacheCalls) < MaxCacheCalls
    /\ \E v \in CacheInvocations :
          /\ v.op \notin Reads
          /\ disks' = [disks EXCEPT ![1] = Underlying(disks[1], v.op, v.path, v.other, v.flag).disk]
          /\ cacheCalls' = Append(cacheCalls, CacheCall(v, 0, FALSE))
    /\ UNCHANGED <<decorator, pool, fsCalls, cache, now, ttl, defers>>
    /\ UNCHANGED <<migrateVars, sqlVars, mqVars, pubsubVars>>

flushCache ==
    /\ decorator = "cache"
    /\ Len(cacheCalls) < MaxCacheCalls
    /\ cache' = <<>>
    /\ cacheCalls' = Append(cacheCalls,
                            [op |-> "flushCache", path |-> "", other |-> "", flag |-> FALSE,
                             at |-> now, expired |-> 0, promise |-> 0, computed |-> FALSE,
                             direct |-> Answered("", disks[1])])
    /\ UNCHANGED <<decorator, disks, pool, fsCalls, now, ttl, defers>>
    /\ UNCHANGED <<migrateVars, sqlVars, mqVars, pubsubVars>>

\* setTTL(ttl), while a call that would observe it can still be made
setTTL ==
    /\ decorator = "cache"
    /\ Len(cacheCalls) < MaxCacheCalls
    /\ \E t \in TTLs \ {ttl} : ttl' = t
    /\ UNCHANGED <<decorator, disks, pool, fsCalls, cache, now, defers, cacheCalls>>
    /\ UNCHANGED <<migrateVars, sqlVars, mqVars, pubsubVars>>

\* Date.now() advances, while a call that would observe it can still be made
Tick ==
    /\ decorator = "cache"
    /\ Len(cacheCalls) < MaxCacheCalls
    /\ now < MaxTime
    /\ now' = now + 1
    /\ UNCHANGED <<decorator, disks, pool, fsCalls, cache, ttl, defers, cacheCalls>>
    /\ UNCHANGED <<migrateVars, sqlVars, mqVars, pubsubVars>>

InitCache ==
    /\ MigrationIdle
    /\ SqlIdle
    /\ MqIdle
    /\ PubSubIdle
    /\ decorator = "cache"
    /\ disks = <<InitialDisk>>
    /\ pool = {}
    /\ fsCalls = <<>>
    /\ cache = <<>>
    /\ now = 0
    /\ ttl \in TTLs
    /\ defers = <<>>
    /\ cacheCalls = <<>>

NextCache ==
    \/ cacheOrCompute
    \/ DeferSettles
    \/ CacheWrite
    \/ flushCache
    \/ setTTL
    \/ Tick

SpecCache == InitCache /\ [][NextCache]_vars

ReadCalls == {j \in 1..Len(cacheCalls) : cacheCalls[j].op \in Reads}
Key(j) == hash(cacheCalls[j].op, cacheCalls[j].path)

\* the calls before j that computed the key of j with no flushCache in between
Computations(j) ==
    {k \in ReadCalls :
        /\ k < j
        /\ Key(k) = Key(j)
        /\ cacheCalls[k].computed
        /\ \A f \in (k + 1)..(j - 1) : cacheCalls[f].op # "flushCache"}

\* the latest of them, 0 when there is none
Computation(j) ==
    IF Computations(j) = {} THEN 0
    ELSE CHOOSE k \in Computations(j) : \A c \in Computations(j) : c <= k

InWindow(j) ==
    /\ Computation(j) # 0
    /\ cacheCalls[j].at <= cacheCalls[Computation(j)].expired

\* C38: cacheOrCompute invokes the underlying operation at most once per key
\* per TTL window: a call made no later than ttl after the call that computed
\* the key receives that call's promise, also while the computation is in
\* flight and after it failed; the first call after expiry or after
\* flushCache computes again.
C38_OncePerWindow ==
    \A j \in ReadCalls :
        IF InWindow(j)
        THEN /\ ~cacheCalls[j].computed
             /\ cacheCalls[j].promise = cacheCalls[Computation(j)].promise
        ELSE /\ cacheCalls[j].computed
             /\ \A k \in ReadCalls : k < j => cacheCalls[k].promise # cacheCalls[j].promise

C38_Witness ==
    \E j \in ReadCalls :
        /\ InWindow(j)
        /\ cacheCalls[j].at > cacheCalls[Computation(j)].at
        /\ defers[cacheCalls[j].promise].state = "rejected"

\* what the promise handed to call j holds equals what the wrapped file
\* system answered when j was called
Agrees(j) ==
    LET defer == defers[cacheCalls[j].promise]
    IN  /\ defer.ok = cacheCalls[j].direct.ok
        /\ defer.ok =>
              /\ cacheCalls[j].op = "readDirectory" => defer.flag = cacheCalls[j].flag
              /\ defer.value = cacheCalls[j].direct.value

\* a write made through the cache before call j on the path that j reads
WrittenBefore(j) ==
    \E w \in 1..(j - 1) :
        /\ cacheCalls[w].op \in Writes \cup {"createWriteStream"}
        /\ \/ cacheCalls[j].op = "readDirectory"
           \/ cacheCalls[j].path \in {cacheCalls[w].path, cacheCalls[w].other}

\* C39: FileSystemCache agrees with the file system it wraps after writes made
\* through it: once unlink, rename, copy, createDirectory or a completed
\* createWriteStream on a path has resolved, a following exists, stat or
\* readDirectory for that path returns what the underlying file system returns.
C39_AgreesAfterWrite ==
    \A j \in ReadCalls : WrittenBefore(j) => Agrees(j)

\* C40: readDirectory(path, true) resolves to [name, Stats] pairs and
\* readDirectory(path) to plain names, whichever of the two forms was called
\* first for that path.
C40_DirectoryForm ==
    \A j \in ReadCalls :
        (/\ cacheCalls[j].op = "readDirectory"
         /\ defers[cacheCalls[j].promise].ok
         /\ Len(defers[cacheCalls[j].promise].value) > 0) =>
            defers[cacheCalls[j].promise].flag = cacheCalls[j].flag

====
